---- MODULE Spec2Model ----
(***************************************************************************)
(* A model of the Gist indexing and retrieval backend (rust-backend/src):  *)
(* the Storage layer (SQLite table `files` + append-only embeddings.bin),  *)
(* the Indexer, the FileWatcher, the in-memory ANN index and the search    *)
(* handler.  Strings that the code inspects (paths, file names,            *)
(* extensions) are sequences of one-character strings, so that prefix,     *)
(* suffix and extension tests are computed as the code computes them.      *)
(***************************************************************************)
EXTENDS Integers, Sequences, FiniteSets, TLC

VARIABLES
    files,       \* the rows of table `files` (storage.rs:37-46), a set of records
    blob,        \* the bytes of embeddings.bin (absent file = empty sequence)
    next_id,     \* the next AUTOINCREMENT id of table `files`
    task,        \* the spawned tasks and the Storage call each is in
    calls,       \* number of calls started so far (bounds the run)
    passed,      \* history: per row, the vector given to the add_file that wrote it
    fs,          \* the filesystem: path -> Option of a directory or regular file
    run,         \* the index_directory invocations
    is_indexing, \* the busy flag of each Indexer instance
    progress,    \* AppState.indexing_progress
    hnsw,        \* AppState.hnsw_index, an Option<HnswIndex>
    queue,       \* the events in the watcher's channel, oldest first
    inflight,    \* the handle_event calls that have started and not returned
    handled,     \* history: the events whose handle_event has returned, in order
    delivered,   \* history: number of events sent to the channel so far
    config,      \* AppState.config
    search,      \* the last /api/search exchange: request, limit and response
    searches,    \* history: number of /api/search requests answered so far
    scans,       \* history: the perform_startup_scan calls that have returned
    changes,     \* history: number of changes made to the filesystem so far
    call,        \* history: the last call made to a function on its own: its
                 \* arguments and what it returned
    saved,       \* the configuration file on disk, an Option<AppConfig>
    llm_cache,   \* QueryParser.llm_cache: cache key -> (ParsedQuery, timestamp)
    llm_model    \* QueryParser.llm_model: the model the parser was created with

storageVars == <<files, blob, next_id>>
indexVars == <<run, is_indexing, progress, hnsw>>
watchVars == <<queue, inflight, handled, delivered>>
searchVars == <<config, search, searches>>
scanVars == <<scans, changes>>
callVars == <<call>>
settingsVars == <<saved>>
parserVars == <<llm_cache, llm_model>>

vars ==
    <<files, blob, next_id, task, calls, passed, fs, run, is_indexing, progress, hnsw,
      queue, inflight, handled, delivered, config, search, searches, scans, changes,
      call, saved, llm_cache, llm_model>>

(***************************************************************************)
(* Bounds of the model.                                                    *)
(***************************************************************************)
NumTasks == 2
MaxCalls == 3
NumRuns == 2

RunIds == 1..NumRuns

(***************************************************************************)
(* Strings.                                                                *)
(***************************************************************************)
\* Option<T> and Result<T, _>: None (or Err) is the empty sequence, Some(x) (or
\* Ok(x)) the one-element sequence.
None == <<>>
Some(x) == <<x>>
Get(opt) == opt[1]

StartsWith(s, prefix) ==
    /\ Len(prefix) <= Len(s)
    /\ SubSeq(s, 1, Len(prefix)) = prefix

EndsWith(s, suffix) ==
    /\ Len(suffix) <= Len(s)
    /\ SubSeq(s, Len(s) - Len(suffix) + 1, Len(s)) = suffix

\* Position of the last occurrence of character c in s, 0 when there is none.
LastIndexOf(s, c) ==
    LET hits == {i \in 1..Len(s) : s[i] = c}
    IN  IF hits = {} THEN 0 ELSE CHOOSE i \in hits : \A j \in hits : j <= i

\* std::path::Path::file_name: the final component of the path.
FileName(p) == SubSeq(p, LastIndexOf(p, "/") + 1, Len(p))

\* std::path::Path::extension: the part of the file name after its last '.',
\* None when the name holds no '.' or only a leading one.
Extension(p) ==
    LET name == FileName(p)
        dot  == LastIndexOf(name, ".")
    IN  IF dot <= 1 THEN None ELSE Some(SubSeq(name, dot + 1, Len(name)))

\* .extension().and_then(|e| e.to_str()).unwrap_or(default)
ExtensionOr(p, default) ==
    IF Extension(p) = None THEN default ELSE Get(Extension(p))

UpperChars == <<"A", "B", "C", "D", "E", "F", "G", "H", "I", "J", "K", "L", "M",
                "N", "O", "P", "Q", "R", "S", "T", "U", "V", "W", "X", "Y", "Z">>
LowerChars == <<"a", "b", "c", "d", "e", "f", "g", "h", "i", "j", "k", "l", "m",
                "n", "o", "p", "q", "r", "s", "t", "u", "v", "w", "x", "y", "z">>

\* str::to_lowercase on the characters the model uses.
ToLower(s) ==
    [i \in 1..Len(s) |->
        IF \E k \in 1..Len(UpperChars) : UpperChars[k] = s[i]
        THEN LowerChars[CHOOSE k \in 1..Len(UpperChars) : UpperChars[k] = s[i]]
        ELSE s[i]]

DigitChars == <<"0", "1", "2", "3", "4", "5", "6", "7", "8", "9">>

\* format!("{}", n) for an unsigned n.
RECURSIVE Decimal(_)
Decimal(n) ==
    IF n < 10 THEN <<DigitChars[n + 1]>>
    ELSE Decimal(n \div 10) \o <<DigitChars[(n % 10) + 1]>>

Root == <<"/", "w">>
DirD == <<"/", "w", "/", "d">>
PathA == <<"/", "w", "/", "a", ".", "t", "x", "t">>
PathB == <<"/", "w", "/", "a", ".", "t", "x", "t", ".", "m", "d">>
PathC == <<"/", "w", "/", "d", "/", "c", ".", "m", "d">>
PathLog == <<"/", "w", "/", "d", ".", "l", "o", "g">>
PathTmp == <<"/", "w", "/", "e", ".", "t", "m", "p">>

StoragePaths == {PathA, PathB}

Unknown == <<"u", "n", "k", "n", "o", "w", "n">>
SectionTag == <<"#", "s", "e", "c", "t", "i", "o", "n">>
SectionNameOpen == <<" ", "(", "s", "e", "c", "t", "i", "o", "n", " ">>

(***************************************************************************)
(* Embedding vectors and their serialized form.  bincode::serialize of a   *)
(* Vec<f32> is the element count as 8 little-endian bytes followed by 4    *)
(* bytes per element.                                                      *)
(***************************************************************************)
Vectors == {<<1, 0>>, <<0, 1>>, <<1>>}

U64Bytes == 8
F32Bytes == 4

Zeros(n) == [i \in 1..n |-> 0]

RECURSIVE SerializeElems(_)
SerializeElems(v) ==
    IF v = <<>> THEN <<>>
    ELSE <<Head(v)>> \o Zeros(F32Bytes - 1) \o SerializeElems(Tail(v))

Serialize(v) == <<Len(v)>> \o Zeros(U64Bytes - 1) \o SerializeElems(v)

RECURSIVE DeserializeElems(_)
DeserializeElems(bytes) ==
    IF bytes = <<>> THEN <<>>
    ELSE <<bytes[1]>> \o DeserializeElems(SubSeq(bytes, F32Bytes + 1, Len(bytes)))

\* bincode::deserialize::<Vec<f32>>: None when the buffer is not a length
\* prefix followed by that many elements.
Deserialize(bytes) ==
    IF Len(bytes) < U64Bytes THEN None
    ELSE IF Len(bytes) - U64Bytes < bytes[1] * F32Bytes THEN None
    ELSE Some(DeserializeElems(SubSeq(bytes, U64Bytes + 1, U64Bytes + bytes[1] * F32Bytes)))

(***************************************************************************)
(* Storage (storage.rs).                                                   *)
(***************************************************************************)
\* The caller's FileMetadata as index_file builds it (indexer.rs:288-297).
MetadataFor(path, name, size, mtime) ==
    [file_path |-> path, file_name |-> name, file_size |-> size,
     modified_time |-> mtime, file_type |-> ExtensionOr(path, Unknown)]

\* SELECT ... FROM files WHERE file_path = ?1
GetFileMetadata(rows, path) ==
    IF \E r \in rows : r.file_path = path
    THEN Some(CHOOSE r \in rows : r.file_path = path)
    ELSE None

\* A change check that never finds the file unchanged.
AlwaysChanged(existing, metadata, embedding) == FALSE

\* The change check of add_file: same modified_time, file_size and serialized
\* byte length as the existing row.
Unchanged(existing, metadata, embedding) ==
    /\ existing # None
    /\ Get(existing).modified_time = metadata.modified_time
    /\ Get(existing).file_size = metadata.file_size
    /\ Get(existing).embedding_length = Len(Serialize(embedding))

\* INSERT OR REPLACE INTO files: the row of the same file_path is deleted and
\* a new row, with a fresh AUTOINCREMENT id, is inserted.
InsertOrReplace(rows, id, metadata, offset, length) ==
    {r \in rows : r.file_path # metadata.file_path} \cup
    {[id |-> id,
      file_path |-> metadata.file_path,
      file_name |-> metadata.file_name,
      file_size |-> metadata.file_size,
      modified_time |-> metadata.modified_time,
      file_type |-> metadata.file_type,
      embedding_offset |-> offset,
      embedding_length |-> length]}

\* DELETE FROM files WHERE file_path = ?1
DeleteRow(rows, path) == {r \in rows : r.file_path # path}

\* The bytes a row addresses, as get_embedding reads them with read_exact:
\* None when the slice runs past the end of the file.
ReadSlice(bytes, row) ==
    IF row.embedding_offset + row.embedding_length > Len(bytes) THEN None
    ELSE Some(SubSeq(bytes, row.embedding_offset + 1,
                     row.embedding_offset + row.embedding_length))

\* Storage::get_embedding: seek, read_exact, deserialize.
GetEmbedding(bytes, row) ==
    IF ReadSlice(bytes, row) = None THEN None
    ELSE Deserialize(Get(ReadSlice(bytes, row)))

\* A call without a vector (index_file_metadata_only passes None): nothing is
\* appended and the row is written with offset 0 and length 0.
MetadataOnlySlice == [offset |-> 0, length |-> 0]

\* Storage::add_file run to completion on st = [files, blob, next_id], with
\* embedding an Option.
AddFile(st, metadata, embedding) ==
    LET existing == GetFileMetadata(st.files, metadata.file_path)
        reuse    == embedding # None /\ Unchanged(existing, metadata, Get(embedding))
        append   == embedding # None /\ ~reuse
        offset   == IF embedding = None THEN MetadataOnlySlice.offset
                    ELSE IF reuse THEN Get(existing).embedding_offset
                    ELSE Len(st.blob)
        length   == IF embedding = None THEN MetadataOnlySlice.length
                    ELSE IF reuse THEN Get(existing).embedding_length
                    ELSE Len(Serialize(Get(embedding)))
    IN  [files   |-> InsertOrReplace(st.files, st.next_id, metadata, offset, length),
         blob    |-> IF append THEN st.blob \o Serialize(Get(embedding)) ELSE st.blob,
         next_id |-> st.next_id + 1]

\* Rows in rowid order, as SELECT ... FROM files returns them.
RECURSIVE RowsById(_)
RowsById(rows) ==
    IF rows = {} THEN <<>>
    ELSE LET first == CHOOSE r \in rows : \A q \in rows : r.id <= q.id
         IN  <<first>> \o RowsById(rows \ {first})

\* Storage::get_all_embeddings: every row whose vector loads, in row order;
\* None (the Err) when rows exist and none of them loads.
GetAllEmbeddings(rows, bytes) ==
    LET all    == RowsById(rows)
        loaded == SelectSeq(all, LAMBDA r : GetEmbedding(bytes, r) # None)
    IN  IF loaded = <<>> /\ all # <<>> THEN None
        ELSE Some([i \in 1..Len(loaded) |->
                      [metadata |-> loaded[i],
                       embedding |-> Get(GetEmbedding(bytes, loaded[i]))]])

(***************************************************************************)
(* Indexer (indexer.rs): admission rules, chunking and the choice of the   *)
(* embedding strategy.  A file's text is [words, word_len]: that many      *)
(* words of that many characters, separated by single spaces.  A file of   *)
(* the filesystem is [modified_time, file_size, text], text being the      *)
(* Result of extracting it.                                                *)
(***************************************************************************)
ExcludedPatterns ==
    {<<"c", "o", "n", "f", "i", "g", ".", "j", "s">>,
     <<"i", "n", "d", "e", "x", ".", "h", "t", "m", "l">>,
     <<"a", "c", "a", ".", "c", "o", "n", "f", ".", "i", "n", "i">>}

ExcludedSuffixes ==
    {<<".", "t", "m", "p">>, <<".", "c", "r", "d", "o", "w", "n", "l", "o", "a", "d">>,
     <<".", "p", "a", "r", "t">>, <<".", "d", "o", "w", "n", "l", "o", "a", "d">>,
     <<".", "p", "a", "r", "t", "i", "a", "l">>, <<".", "l", "o", "c", "k">>,
     <<".", "s", "w", "p">>, <<".", "~">>}

MetadataOnlyExtensions ==
    {<<"j", "s", "o", "n">>, <<"y", "a", "m", "l">>, <<"y", "m", "l">>,
     <<"t", "o", "m", "l">>, <<"i", "n", "i">>, <<"c", "f", "g">>,
     <<"c", "o", "n", "f">>, <<"p", "r", "o", "p", "e", "r", "t", "i", "e", "s">>,
     <<"c", "o", "n", "f", "i", "g">>,
     <<"e", "x", "e">>, <<"d", "l", "l">>, <<"j", "a", "r">>, <<"s", "o">>,
     <<"d", "y", "l", "i", "b">>, <<"d", "l", "l", ".", "a">>, <<"d", "a", "t">>,
     <<"m", "c", "a">>, <<"r", "r", "f">>, <<"i", "g", "t">>,
     <<"c", "l", "a", "s", "s">>,
     <<"l", "o", "g">>,
     <<"j", "p", "g">>, <<"j", "p", "e", "g">>, <<"p", "n", "g">>, <<"g", "i", "f">>,
     <<"b", "m", "p">>, <<"w", "e", "b", "p">>, <<"s", "v", "g">>, <<"i", "c", "o">>,
     <<"t", "i", "f", "f">>, <<"t", "i", "f">>}

ParsableExtensions ==
    {<<"t", "x", "t">>, <<"m", "d">>, <<"j", "s">>, <<"t", "s">>, <<"p", "y">>,
     <<"r", "s">>, <<"j", "a", "v", "a">>, <<"c", "p", "p">>, <<"c">>, <<"h">>,
     <<"h", "p", "p">>, <<"x", "m", "l">>, <<"h", "t", "m", "l">>, <<"c", "s", "s">>,
     <<"l", "o", "g">>,
     <<"j", "p", "g">>, <<"j", "p", "e", "g">>, <<"p", "n", "g">>, <<"g", "i", "f">>,
     <<"b", "m", "p">>, <<"w", "e", "b", "p">>, <<"s", "v", "g">>, <<"i", "c", "o">>,
     <<"t", "i", "f", "f">>, <<"t", "i", "f">>,
     <<"p", "d", "f">>, <<"d", "o", "c", "x">>, <<"x", "l", "s", "x">>}

\* Indexer::should_exclude_file
ShouldExcludeFile(path) ==
    LET file_name == ToLower(FileName(path))
    IN  \/ file_name \in ExcludedPatterns
        \/ \E ext \in ExcludedSuffixes : EndsWith(file_name, ext)

\* Indexer::should_index_metadata_only
ShouldIndexMetadataOnly(path) ==
    ToLower(ExtensionOr(path, <<>>)) \in MetadataOnlyExtensions

\* ParserRegistry::can_parse with the default FileTypeFilters (every parser
\* included, no excluded extension).
CanParse(path) ==
    ToLower(ExtensionOr(path, <<>>)) \in ParsableExtensions

\* The admission test of index_directory and perform_startup_scan.
Admissible(path) ==
    /\ ~ShouldExcludeFile(path)
    /\ ShouldIndexMetadataOnly(path) \/ CanParse(path)

chunk_size == 512
max_context_tokens == 1500

\* Length of n words of word_len characters joined by single spaces.
JoinedLen(n, word_len) == n * word_len + (n - 1)

\* Indexer::chunk_text with config.chunk_size = size, as the byte lengths of
\* the chunks.
ChunkTextWith(text, size) ==
    LET full == text.words \div size
        rest == text.words % size
    IN  [i \in 1..full |-> JoinedLen(size, text.word_len)] \o
        (IF rest > 0 THEN <<JoinedLen(rest, text.word_len)>> ELSE <<>>)

\* Indexer::chunk_text under the default configuration.
ChunkText(text) == ChunkTextWith(text, chunk_size)

RECURSIVE SumTokens(_)
SumTokens(chunks) ==
    IF chunks = <<>> THEN 0 ELSE (Head(chunks) \div 4) + SumTokens(Tail(chunks))

\* ((ratio + 1.0).log2().ceil() as usize).max(1) for ratio = total / max_tokens:
\* the least n >= 1 with 2^n * max_tokens >= total + max_tokens.
RECURSIVE NumSectionsFrom(_, _, _)
NumSectionsFrom(n, total, max_tokens) ==
    IF (2 ^ n) * max_tokens >= total + max_tokens THEN n
    ELSE NumSectionsFrom(n + 1, total, max_tokens)

\* Indexer::create_multiple_embedding_sections, as the [start, end) chunk
\* ranges of the sections it returns.
CreateMultipleEmbeddingSections(chunks, max_tokens) ==
    LET num_sections       == NumSectionsFrom(1, SumTokens(chunks), max_tokens)
        chunks_per_section == Len(chunks) \div num_sections
        overlap_chunks     == chunks_per_section \div 5
        start_idx(i) == IF i = 0 THEN 0
                        ELSE IF i * chunks_per_section >= overlap_chunks
                             THEN i * chunks_per_section - overlap_chunks
                             ELSE 0
        end_idx(i)   == IF i = num_sections - 1 THEN Len(chunks)
                        ELSE IF (i + 1) * chunks_per_section <= Len(chunks)
                             THEN (i + 1) * chunks_per_section
                             ELSE Len(chunks)
        kept == SelectSeq([k \in 1..num_sections |-> k - 1],
                          LAMBDA i : start_idx(i) < end_idx(i) /\ start_idx(i) < Len(chunks))
        ranges == [k \in 1..Len(kept) |->
                      [start |-> start_idx(kept[k]), end |-> end_idx(kept[k])]]
    IN  IF num_sections = 1 \/ ranges = <<>>
        THEN <<[start |-> 0, end |-> Len(chunks)]>>
        ELSE ranges

\* index_file without the two downgrades: every file that is not metadata-only
\* by its extension is sent to the embedding service.
CountWithoutDowngrade(path, file, size, max_tokens) ==
    IF ShouldIndexMetadataOnly(path) THEN 0 ELSE 1

\* How many embeddings index_file asks for under config.chunk_size = size and
\* config.max_context_tokens = max_tokens: 0 when the file takes the
\* metadata-only route (by extension, unreadable, or empty text).
EmbeddingCountWith(path, file, size, max_tokens) ==
    IF ShouldIndexMetadataOnly(path) \/ ~CanParse(path) THEN 0
    ELSE IF file.text = None THEN 0
    ELSE IF Get(file.text).words = 0 THEN 0
    ELSE IF SumTokens(ChunkTextWith(Get(file.text), size)) <= max_tokens * 4 THEN 1
    ELSE Len(CreateMultipleEmbeddingSections(ChunkTextWith(Get(file.text), size), max_tokens))

\* The same under the default configuration.
EmbeddingCount(path, file) == EmbeddingCountWith(path, file, chunk_size, max_context_tokens)

\* format!("{}#section{}", file_path, section_idx + 1), for section_idx >= 1.
SectionPath(path, k) == IF k = 1 THEN path ELSE path \o SectionTag \o Decimal(k)

\* format!("{} (section {})", file_name, section_idx + 1)
SectionFileName(path, k) ==
    IF k = 1 THEN FileName(path)
    ELSE FileName(path) \o SectionNameOpen \o Decimal(k) \o <<")">>

\* The FileMetadata index_file passes to add_file for its k-th embedding
\* (k = 1 is the primary record) and index_file_metadata_only for the file.
SectionMetadata(path, file, k) ==
    [file_path |-> SectionPath(path, k),
     file_name |-> SectionFileName(path, k),
     file_size |-> file.file_size,
     modified_time |-> file.modified_time,
     file_type |-> ExtensionOr(path, Unknown)]

\* Indexer::index_file run to completion on st for an existing regular file
\* from its k-th embedding on, n being the number of embeddings it asks for:
\* outcomes[k] is the Result the embedding service gives the k-th request.
\* Returns the storage afterwards and whether index_file returned Ok.
RECURSIVE IndexSectionsOf(_, _, _, _, _, _)
IndexSectionsOf(st, path, file, outcomes, k, n) ==
    IF k > n THEN [st |-> st, ok |-> TRUE]
    ELSE IF outcomes[k] = None THEN [st |-> st, ok |-> FALSE]
    ELSE IndexSectionsOf(AddFile(st, SectionMetadata(path, file, k), outcomes[k]),
                         path, file, outcomes, k + 1, n)

IndexSections(st, path, file, outcomes, k) ==
    IndexSectionsOf(st, path, file, outcomes, k, EmbeddingCount(path, file))

\* index_file for a file that asks for n embeddings.
IndexFileOf(st, path, file, outcomes, n) ==
    IF n = 0
    THEN [st |-> AddFile(st, SectionMetadata(path, file, 1), None), ok |-> TRUE]
    ELSE IndexSectionsOf(st, path, file, outcomes, 1, n)

IndexFile(st, path, file, outcomes) ==
    IndexFileOf(st, path, file, outcomes, EmbeddingCount(path, file))

(***************************************************************************)
(* The ANN index (hnsw_index.rs): parallel arrays of vectors and records,  *)
(* and a map from record id to slot (0-based).                             *)
(***************************************************************************)
HnswNew(dimensions) ==
    [embeddings |-> <<>>, metadata_list |-> <<>>, id_to_index |-> {},
     dimensions |-> dimensions]

\* HashMap::insert
MapInsert(map, key, value) ==
    {e \in map : e.key # key} \cup {[key |-> key, value |-> value]}

\* HnswIndex::add; an embedding of another dimension is refused.
HnswAdd(h, embedding, metadata) ==
    IF Len(embedding) # h.dimensions THEN h
    ELSE [embeddings    |-> Append(h.embeddings, embedding),
          metadata_list |-> Append(h.metadata_list, metadata),
          id_to_index   |-> MapInsert(h.id_to_index, metadata.id, Len(h.embeddings)),
          dimensions    |-> h.dimensions]

RECURSIVE HnswAddAll(_, _)
HnswAddAll(h, pairs) ==
    IF pairs = <<>> THEN h
    ELSE HnswAddAll(HnswAdd(h, Head(pairs).embedding, Head(pairs).metadata), Tail(pairs))

\* HnswIndex::rebuild_from_embeddings
RebuildFromEmbeddings(h, pairs) ==
    IF pairs = <<>> THEN HnswNew(h.dimensions)
    ELSE HnswAddAll(HnswNew(Len(pairs[1].embedding)), pairs)

\* The rebuild at the end of start_indexing's spawned task: the new value of
\* AppState.hnsw_index.
RebuiltIndex(old, rows, bytes) ==
    LET loaded == GetAllEmbeddings(rows, bytes)
    IN  IF loaded = None \/ Get(loaded) = <<>> THEN old
        ELSE Some(RebuildFromEmbeddings(HnswNew(Len(Get(loaded)[1].embedding)),
                                        Get(loaded)))

(***************************************************************************)
(* Storage calls running as tasks.  add_file is four steps: the SELECT of  *)
(* the existing row, the read of the blob's length, the append and the     *)
(* INSERT OR REPLACE; the tasks of the runtime's worker threads interleave *)
(* between them.  clear_all is two steps.  A task's job is None for a bare *)
(* Storage call and the index_file call it belongs to otherwise.           *)
(***************************************************************************)
Idle == [pc |-> "idle"]

Metadatas ==
    {MetadataFor(p, FileName(p), s, m) : p \in StoragePaths, s \in 1..2, m \in 1..2}

CallAddFile(job, metadata, embedding) ==
    [pc |-> "select", job |-> job, metadata |-> metadata, embedding |-> embedding]

StartAddFile(t, metadata, embedding) ==
    /\ task[t] = Idle
    /\ calls < MaxCalls
    /\ task' = [task EXCEPT ![t] = CallAddFile(None, metadata, embedding)]
    /\ calls' = calls + 1
    /\ UNCHANGED <<storageVars, passed, fs, indexVars, watchVars, searchVars, scanVars, callVars, settingsVars, parserVars>>

AddFileSelect(t) ==
    /\ task[t].pc = "select"
    /\ task' = [task EXCEPT ![t] =
                    [pc |-> "offset", job |-> task[t].job,
                     metadata |-> task[t].metadata,
                     embedding |-> task[t].embedding,
                     existing |-> GetFileMetadata(files, task[t].metadata.file_path)]]
    /\ UNCHANGED <<storageVars, calls, passed, fs, indexVars, watchVars, searchVars, scanVars, callVars, settingsVars, parserVars>>

AddFileOffset(t) ==
    /\ task[t].pc = "offset"
    /\ task' = [task EXCEPT ![t] =
                    IF task[t].embedding = None
                    THEN [pc |-> "insert", job |-> task[t].job,
                          metadata |-> task[t].metadata,
                          embedding |-> task[t].embedding,
                          offset |-> MetadataOnlySlice.offset,
                          length |-> MetadataOnlySlice.length]
                    ELSE IF Unchanged(task[t].existing, task[t].metadata,
                                      Get(task[t].embedding))
                    THEN [pc |-> "insert", job |-> task[t].job,
                          metadata |-> task[t].metadata,
                          embedding |-> task[t].embedding,
                          offset |-> Get(task[t].existing).embedding_offset,
                          length |-> Get(task[t].existing).embedding_length]
                    ELSE [pc |-> "append", job |-> task[t].job,
                          metadata |-> task[t].metadata,
                          embedding |-> task[t].embedding,
                          offset |-> Len(blob)]]
    /\ UNCHANGED <<storageVars, calls, passed, fs, indexVars, watchVars, searchVars, scanVars, callVars, settingsVars, parserVars>>

AddFileAppend(t) ==
    /\ task[t].pc = "append"
    /\ blob' = blob \o Serialize(Get(task[t].embedding))
    /\ task' = [task EXCEPT ![t] =
                    [pc |-> "insert", job |-> task[t].job,
                     metadata |-> task[t].metadata,
                     embedding |-> task[t].embedding,
                     offset |-> task[t].offset,
                     length |-> Len(Serialize(Get(task[t].embedding)))]]
    /\ UNCHANGED <<files, next_id, calls, passed, fs, indexVars, watchVars, searchVars, scanVars, callVars, settingsVars, parserVars>>

\* Where the task goes when its add_file has returned: a bare call is over,
\* an index_file call goes on to its next embedding.
AfterAddFile(job) ==
    IF job = None THEN Idle
    ELSE IF Get(job).k < Get(job).n
    THEN [pc |-> "embed", job |-> Some([Get(job) EXCEPT !.k = @ + 1])]
    ELSE [pc |-> "done", job |-> job, ok |-> TRUE]

AddFileInsert(t) ==
    /\ task[t].pc = "insert"
    /\ files' = InsertOrReplace(files, next_id, task[t].metadata,
                                task[t].offset, task[t].length)
    /\ next_id' = next_id + 1
    /\ passed' = {e \in passed : e.file_path # task[t].metadata.file_path} \cup
                 {[file_path |-> task[t].metadata.file_path,
                   embedding |-> task[t].embedding]}
    /\ task' = [task EXCEPT ![t] = AfterAddFile(task[t].job)]
    /\ UNCHANGED <<blob, calls, fs, indexVars, watchVars, searchVars, scanVars, callVars, settingsVars, parserVars>>

DeleteFile(t, path) ==
    /\ task[t] = Idle
    /\ calls < MaxCalls
    /\ files' = DeleteRow(files, path)
    /\ passed' = {e \in passed : e.file_path # path}
    /\ calls' = calls + 1
    /\ UNCHANGED <<blob, next_id, task, fs, indexVars, watchVars, searchVars, scanVars, callVars, settingsVars, parserVars>>

ClearAllRows(t) ==
    /\ task[t] = Idle
    /\ calls < MaxCalls
    /\ files' = {}
    /\ passed' = {}
    /\ task' = [task EXCEPT ![t] = [pc |-> "remove_blob"]]
    /\ calls' = calls + 1
    /\ UNCHANGED <<blob, next_id, fs, indexVars, watchVars, searchVars, scanVars, callVars, settingsVars, parserVars>>

ClearAllBlob(t) ==
    /\ task[t].pc = "remove_blob"
    /\ blob' = <<>>
    /\ task' = [task EXCEPT ![t] = Idle]
    /\ UNCHANGED <<files, next_id, calls, passed, fs, indexVars, watchVars, searchVars, scanVars, callVars, settingsVars, parserVars>>

EmptyStorage ==
    /\ files = {}
    /\ blob = <<>>
    /\ next_id = 1
    /\ passed = {}

NoIndexRuns ==
    /\ run = <<>>
    /\ is_indexing = <<>>
    /\ progress = None
    /\ hnsw = None

NoWatcher ==
    /\ queue = <<>>
    /\ inflight = {}
    /\ handled = <<>>
    /\ delivered = 0

NoCall == call = None

NoSettings == saved = None

NoParser == llm_cache = <<>> /\ llm_model = <<>>

NoScan ==
    /\ scans = <<>>
    /\ changes = 0

\* AppConfig::default (config.rs:70-93), as far as the model reads it.
DefaultConfig ==
    [indexed_directories |-> <<>>, auto_index |-> TRUE, max_search_results |-> 100,
     excluded_extensions |-> <<>>, filter_duplicate_files |-> FALSE,
     performance_mode |-> "normal", embedding_model |-> "embeddinggemma",
     chunk_size |-> chunk_size, max_context_tokens |-> max_context_tokens]

NoSearch ==
    /\ config = DefaultConfig
    /\ search = None
    /\ searches = 0

StorageInit ==
    /\ EmptyStorage
    /\ task = [t \in 1..NumTasks |-> Idle]
    /\ calls = 0
    /\ fs = <<>>
    /\ NoIndexRuns
    /\ NoWatcher
    /\ NoScan
    /\ NoCall
    /\ NoSettings
    /\ NoParser
    /\ NoSearch

StorageNext ==
    \E t \in DOMAIN task :
        \/ \E md \in Metadatas, v \in Vectors : StartAddFile(t, md, Some(v))
        \/ AddFileSelect(t)
        \/ AddFileOffset(t)
        \/ AddFileAppend(t)
        \/ AddFileInsert(t)
        \/ \E p \in StoragePaths : DeleteFile(t, p)
        \/ ClearAllRows(t)
        \/ ClearAllBlob(t)

SpecStorage == StorageInit /\ [][StorageNext]_vars

(***************************************************************************)
(* C3: in every state, every row with embedding_length > 0 lies within the *)
(* embedding blob: embedding_offset + embedding_length <= Len(blob).       *)
(***************************************************************************)
RowsWithinBlob ==
    \A r \in files :
        r.embedding_length > 0 =>
            r.embedding_offset + r.embedding_length <= Len(blob)

(***************************************************************************)
(* Concurrent upserts only: the add_file calls of the tasks that           *)
(* index_directory spawns for one batch.                                   *)
(***************************************************************************)
UpsertNext ==
    \E t \in DOMAIN task :
        \/ \E md \in Metadatas, v \in Vectors : StartAddFile(t, md, Some(v))
        \/ AddFileSelect(t)
        \/ AddFileOffset(t)
        \/ AddFileAppend(t)
        \/ AddFileInsert(t)

SpecUpserts == StorageInit /\ [][UpsertNext]_vars

\* The bytes positions (0-based) a row addresses.
Slice(r) == r.embedding_offset .. (r.embedding_offset + r.embedding_length - 1)

\* Every upsert so far has finished and each was for a path of its own.
DistinctUpsertsFinished ==
    /\ \A t \in DOMAIN task : task[t] = Idle
    /\ calls = Cardinality(files)

(***************************************************************************)
(* C2: once all concurrent upserts for distinct new paths have finished,   *)
(* each record's slice of the blob holds exactly the vector passed to that *)
(* record's own upsert, and no two records share a slice.                  *)
(***************************************************************************)
UpsertSlicesExclusive ==
    DistinctUpsertsFinished =>
        /\ \A r \in files :
               \A e \in passed :
                   e.file_path = r.file_path => GetEmbedding(blob, r) = e.embedding
        /\ \A r1, r2 \in files :
               r1 # r2 => Slice(r1) \cap Slice(r2) = {}

(***************************************************************************)
(* The filesystem: fs[p] is None where nothing exists, a directory         *)
(* [is_file |-> FALSE], or a regular file with its modification time, size *)
(* and the Result of extracting its text.                                  *)
(***************************************************************************)
Directory == [is_file |-> FALSE]
RegularFile(mtime, size, text) ==
    [is_file |-> TRUE, modified_time |-> mtime, file_size |-> size, text |-> text]

\* Path::is_file
IsFile(tree, p) == p \in DOMAIN tree /\ tree[p] # None /\ Get(tree[p]).is_file

\* The regular files walkdir::WalkDir::new(dir) yields: dir itself when it is
\* a file, and every file below it.
Walk(tree, dir) ==
    {p \in DOMAIN tree : IsFile(tree, p) /\ (p = dir \/ StartsWith(p, dir \o <<"/">>))}

\* The orders in which a walk can yield a set of entries.
Orders(S) ==
    {f \in [1..Cardinality(S) -> S] : \A i, j \in 1..Cardinality(S) : f[i] = f[j] => i = j}

Small == [words |-> 100, word_len |-> 7]
Large == [words |-> 4000, word_len |-> 7]

(***************************************************************************)
(* Indexer::index_directory (indexer.rs:53-221) and the handler that       *)
(* starts it, start_indexing (api/index.rs:24-75).  A run is one           *)
(* invocation; run[r].indexer names the Indexer instance it was invoked    *)
(* on, and with it the busy flag it tests.  The tasks of a batch are the   *)
(* slots <<r, 1>> .. <<r, BATCH_SIZE>>.  run[r].results is history: the    *)
(* (file, Result) pairs the run has awaited, in order.                     *)
(***************************************************************************)
BATCH_SIZE == 5

NoRun ==
    [pc |-> "none", indexer |-> 0, http |-> FALSE, directory |-> <<>>,
     files_to_index |-> <<>>, total |-> 0, next |-> 0, batch |-> 0, awaited |-> 0,
     count |-> 0, current |-> 0, results |-> <<>>]

Min(a, b) == IF a <= b THEN a ELSE b

\* POST /api/index/start: the handler builds a new Indexer, with a busy flag
\* of its own, and spawns index_directory on it.
StartIndexing(r, dir) ==
    /\ run[r].pc = "none"
    /\ \A q \in RunIds : q < r => run[q].pc # "none"
    /\ run' = [run EXCEPT ![r] = [NoRun EXCEPT !.pc = "called", !.indexer = r,
                                               !.http = TRUE, !.directory = dir]]
    /\ UNCHANGED <<storageVars, task, calls, passed, fs, is_indexing, progress, hnsw, watchVars, searchVars, scanVars, callVars, settingsVars, parserVars>>

\* index_directory invoked on the Indexer of an earlier invocation q (the
\* Indexer is Clone and its clones share the flag).
InvokeOnIndexer(r, q, dir) ==
    /\ run[r].pc = "none"
    /\ \A p \in RunIds : p < r => run[p].pc # "none"
    /\ run[q].pc # "none"
    /\ run' = [run EXCEPT ![r] = [NoRun EXCEPT !.pc = "called",
                                               !.indexer = run[q].indexer,
                                               !.directory = dir]]
    /\ UNCHANGED <<storageVars, task, calls, passed, fs, is_indexing, progress, hnsw, watchVars, searchVars, scanVars, callVars, settingsVars, parserVars>>

\* Lines 54-59: the flag is tested and set under its write lock.
EnterBusy(r) ==
    /\ run[r].pc = "called"
    /\ is_indexing[run[r].indexer]
    /\ run' = [run EXCEPT ![r].pc = "busy"]
    /\ UNCHANGED <<storageVars, task, calls, passed, fs, is_indexing, progress, hnsw, watchVars, searchVars, scanVars, callVars, settingsVars, parserVars>>

\* Lines 54-77: flag set, first walk counts the admissible files.
EnterRun(r) ==
    /\ run[r].pc = "called"
    /\ ~is_indexing[run[r].indexer]
    /\ is_indexing' = [is_indexing EXCEPT ![run[r].indexer] = TRUE]
    /\ run' = [run EXCEPT ![r].pc = "init_progress",
                          ![r].total = Cardinality({p \in Walk(fs, run[r].directory) :
                                                       Admissible(p)})]
    /\ UNCHANGED <<storageVars, task, calls, passed, fs, progress, hnsw, watchVars, searchVars, scanVars, callVars, settingsVars, parserVars>>

\* Lines 79-117: progress initialised, second walk collects the files.
InitProgress(r) ==
    /\ run[r].pc = "init_progress"
    /\ progress' = Some([is_indexing |-> TRUE, current |-> 0, total |-> run[r].total,
                         current_file |-> <<>>, directory |-> run[r].directory])
    /\ \E order \in Orders({p \in Walk(fs, run[r].directory) : Admissible(p)}) :
           run' = [run EXCEPT ![r].files_to_index = order,
                              ![r].pc = IF order = <<>> THEN "clear_progress" ELSE "spawn"]
    /\ UNCHANGED <<storageVars, task, calls, passed, fs, is_indexing, hnsw, watchVars, searchVars, scanVars, callVars, settingsVars, parserVars>>

\* Lines 121-146: one task is spawned per file of the next batch.
SpawnBatch(r) ==
    /\ run[r].pc = "spawn"
    /\ LET size == Min(BATCH_SIZE, Len(run[r].files_to_index) - run[r].next)
       IN  /\ task' = [t \in DOMAIN task |->
                          IF t[1] = r /\ t[2] <= size
                          THEN [pc |-> "spawned",
                                job |-> Some([path |-> run[r].files_to_index[run[r].next + t[2]],
                                              k |-> 1, n |-> 0])]
                          ELSE task[t]]
           /\ run' = [run EXCEPT ![r].pc = "await", ![r].batch = size, ![r].awaited = 0]
    /\ UNCHANGED <<storageVars, calls, passed, fs, is_indexing, progress, hnsw, watchVars, searchVars, scanVars, callVars, settingsVars, parserVars>>

\* Lines 130-143 and index_file up to its first embedding request: the task
\* publishes its file in the progress record and picks its route.
TaskBegin(t) ==
    /\ task[t].pc = "spawned"
    /\ progress' = IF progress = None THEN None
                   ELSE Some([Get(progress) EXCEPT !.current_file = Get(task[t].job).path])
    /\ LET path == Get(task[t].job).path
           file == Get(fs[path])
           n    == EmbeddingCount(path, file)
           job  == Some([path |-> path, k |-> 1, n |-> n])
       IN  task' = [task EXCEPT ![t] =
                       IF n = 0
                       THEN CallAddFile(job, SectionMetadata(path, file, 1), None)
                       ELSE [pc |-> "embed", job |-> job]]
    /\ UNCHANGED <<storageVars, calls, passed, fs, run, is_indexing, hnsw, watchVars, searchVars, scanVars, callVars, settingsVars, parserVars>>

\* generate_safe_embedding(...).await? for the k-th embedding of the file: an
\* Err ends index_file, a vector goes to add_file.
TaskEmbed(t, outcome) ==
    /\ task[t].pc = "embed"
    /\ LET job  == Get(task[t].job)
           file == Get(fs[job.path])
       IN  task' = [task EXCEPT ![t] =
                       IF outcome = None
                       THEN [pc |-> "done", job |-> task[t].job, ok |-> FALSE]
                       ELSE CallAddFile(task[t].job,
                                        SectionMetadata(job.path, file, job.k), outcome)]
    /\ UNCHANGED <<storageVars, calls, passed, fs, indexVars, watchVars, searchVars, scanVars, callVars, settingsVars, parserVars>>

\* Lines 149-197: the tasks are awaited in spawn order; each result updates
\* the counters and the progress record.
AwaitTask(r) ==
    /\ run[r].pc = "await"
    /\ LET t    == <<r, run[r].awaited + 1>>
           last == run[r].awaited + 1 = run[r].batch
           more == run[r].next + run[r].batch < Len(run[r].files_to_index)
       IN  /\ task[t].pc = "done"
           /\ task' = [task EXCEPT ![t] = Idle]
           /\ progress' =
                  IF progress = None THEN None
                  ELSE IF task[t].ok
                  THEN Some([Get(progress) EXCEPT !.current = run[r].current + 1,
                                                  !.current_file = Get(task[t].job).path])
                  ELSE Some([Get(progress) EXCEPT !.current = run[r].current + 1])
           /\ run' = [run EXCEPT
                         ![r].count = IF task[t].ok THEN @ + 1 ELSE @,
                         ![r].current = @ + 1,
                         ![r].results = Append(@, [path |-> Get(task[t].job).path,
                                                   ok |-> task[t].ok]),
                         ![r].awaited = @ + 1,
                         ![r].next = IF last THEN @ + run[r].batch ELSE @,
                         ![r].pc = IF ~last THEN "await"
                                   ELSE IF more THEN "spawn" ELSE "clear_progress"]
    /\ UNCHANGED <<storageVars, calls, passed, fs, is_indexing, hnsw, watchVars, searchVars, scanVars, callVars, settingsVars, parserVars>>

\* Lines 212-215.
ClearProgress(r) ==
    /\ run[r].pc = "clear_progress"
    /\ progress' = None
    /\ run' = [run EXCEPT ![r].pc = "release"]
    /\ UNCHANGED <<storageVars, task, calls, passed, fs, is_indexing, hnsw, watchVars, searchVars, scanVars, callVars, settingsVars, parserVars>>

\* Lines 217-220.
ReleaseFlag(r) ==
    /\ run[r].pc = "release"
    /\ is_indexing' = [is_indexing EXCEPT ![run[r].indexer] = FALSE]
    /\ run' = [run EXCEPT ![r].pc = IF run[r].http THEN "rebuild" ELSE "returned"]
    /\ UNCHANGED <<storageVars, task, calls, passed, fs, progress, hnsw, watchVars, searchVars, scanVars, callVars, settingsVars, parserVars>>

\* api/index.rs:50-63: after Ok(count) the ANN index is rebuilt from Storage.
RebuildAfterIndexing(r) ==
    /\ run[r].pc = "rebuild"
    /\ hnsw' = RebuiltIndex(hnsw, files, blob)
    /\ run' = [run EXCEPT ![r].pc = "returned"]
    /\ UNCHANGED <<storageVars, task, calls, passed, fs, is_indexing, progress, watchVars, searchVars, scanVars, callVars, settingsVars, parserVars>>

IndexDirs == {Root}

IndexFs ==
    [p \in {PathA, PathLog, PathTmp} |-> Some(RegularFile(1, 1, Some(Small)))]

IndexInit ==
    /\ EmptyStorage
    /\ task = [t \in RunIds \X (1..BATCH_SIZE) |-> Idle]
    /\ calls = 0
    /\ fs = IndexFs
    /\ run = [r \in RunIds |-> NoRun]
    /\ is_indexing = [ix \in RunIds |-> FALSE]
    /\ progress = None
    /\ hnsw = None
    /\ NoWatcher
    /\ NoScan
    /\ NoCall
    /\ NoSettings
    /\ NoParser
    /\ NoSearch

IndexNext ==
    \/ \E r \in RunIds, dir \in IndexDirs :
        \/ StartIndexing(r, dir)
        \/ \E q \in RunIds : InvokeOnIndexer(r, q, dir)
    \/ \E r \in RunIds :
        \/ EnterBusy(r)
        \/ EnterRun(r)
        \/ InitProgress(r)
        \/ SpawnBatch(r)
        \/ AwaitTask(r)
        \/ ClearProgress(r)
        \/ ReleaseFlag(r)
        \/ RebuildAfterIndexing(r)
    \/ \E t \in DOMAIN task :
        \/ TaskBegin(t)
        \/ \E outcome \in {None} \cup {Some(v) : v \in Vectors} : TaskEmbed(t, outcome)
        \/ AddFileSelect(t)
        \/ AddFileOffset(t)
        \/ AddFileAppend(t)
        \/ AddFileInsert(t)

SpecIndex == IndexInit /\ [][IndexNext]_vars

\* The runs that are inside index_directory, past the busy test.
ActiveRuns ==
    {r \in RunIds : run[r].pc \in {"init_progress", "spawn", "await",
                                   "clear_progress", "release"}}

(***************************************************************************)
(* C1: at no time are two index_directory runs active in the process: an   *)
(* invocation made while another run is active ends in Busy.               *)
(***************************************************************************)
AtMostOneActiveRun == Cardinality(ActiveRuns) <= 1

(***************************************************************************)
(* Scoring (search.rs, api/search.rs).  A similarity is an integer number  *)
(* of thousandths; a product of two f32 values is the product of the       *)
(* thousandths divided by 1000.                                            *)
(***************************************************************************)
One == 1000

Mul(a, b) == (a * b) \div One

Max(a, b) == IF a >= b THEN a ELSE b

\* Integer square root, exact on the norms of the vectors of the model.
ISqrt(x) == CHOOSE n \in 0..x : n * n <= x /\ (n + 1) * (n + 1) > x

RECURSIVE Dot(_, _)
Dot(a, b) == IF a = <<>> THEN 0 ELSE Head(a) * Head(b) + Dot(Tail(a), Tail(b))

\* search::cosine_similarity
cosine_similarity(a, b) ==
    IF Len(a) # Len(b) THEN 0
    ELSE IF ISqrt(Dot(a, a)) = 0 \/ ISqrt(Dot(b, b)) = 0 THEN 0
    ELSE (Dot(a, b) * One) \div (ISqrt(Dot(a, a)) * ISqrt(Dot(b, b)))

\* str::contains
Contains(s, sub) ==
    \E i \in 0..(Len(s) - Len(sub)) : \A j \in 1..Len(sub) : s[i + j] = sub[j]

\* str::split on the characters of seps, empty pieces dropped.
RECURSIVE Split(_, _)
Split(s, seps) ==
    IF s = <<>> THEN <<>>
    ELSE LET cuts == {i \in 1..Len(s) : s[i] \in seps}
         IN  IF cuts = {} THEN <<s>>
             ELSE LET c == CHOOSE i \in cuts : \A j \in cuts : i <= j
                      rest == Split(SubSeq(s, c + 1, Len(s)), seps)
                  IN  IF c = 1 THEN rest ELSE <<SubSeq(s, 1, c - 1)>> \o rest

Whitespace == {" "}
NameSeparators == {" ", "-", "_", "."}

\* str::trim
RECURSIVE Trim(_)
Trim(s) ==
    IF s = <<>> THEN s
    ELSE IF Head(s) \in Whitespace THEN Trim(Tail(s))
    ELSE IF s[Len(s)] \in Whitespace THEN Trim(SubSeq(s, 1, Len(s) - 1))
    ELSE s

\* search::calculate_char_similarity: the greedy count of query characters
\* found, in order, in the file name, over the longer length.
RECURSIVE CommonChars(_, _, _, _)
CommonChars(q, f, query_pos, filename_pos) ==
    IF query_pos > Len(q) \/ filename_pos > Len(f) THEN 0
    ELSE LET found == {i \in filename_pos..Len(f) : f[i] = q[query_pos]}
         IN  IF found = {} THEN CommonChars(q, f, query_pos + 1, filename_pos)
             ELSE 1 + CommonChars(q, f, query_pos + 1,
                                  (CHOOSE i \in found : \A j \in found : i <= j) + 1)

calculate_char_similarity(query, filename) ==
    IF query = <<>> \/ filename = <<>> THEN 0
    ELSE (CommonChars(query, filename, 1, 1) * One) \div Max(Len(query), Len(filename))

\* Whether a query word counts as matched by some word of the file name
\* (search.rs:61-95).
WordMatched(query_word, filename_words) ==
    /\ Len(query_word) >= 3
    /\ \E i \in 1..Len(filename_words) :
           LET w == filename_words[i]
           IN  \/ w = query_word
               \/ /\ Len(query_word) >= 4
                  /\ Len(w) <= Len(query_word) + 2
                  /\ Contains(w, query_word)
                  /\ \/ StartsWith(w, query_word)
                     \/ Len(query_word) * 10 > 6 * Len(w)

\* search::filename_similarity
filename_similarity(query, filename) ==
    LET query_lower    == ToLower(query)
        filename_lower == ToLower(filename)
        query_words    == Split(query_lower, Whitespace)
        filename_words == Split(filename_lower, NameSeparators)
        matched_words  == Cardinality({i \in 1..Len(query_words) :
                                          WordMatched(query_words[i], filename_words)})
    IN  IF filename_lower = query_lower THEN One
        ELSE IF Len(query_lower) >= 4 /\ Contains(filename_lower, query_lower)
        THEN (IF StartsWith(filename_lower, query_lower) THEN 950 ELSE 850)
        ELSE IF query_words = <<>> \/ filename_words = <<>> THEN 0
        ELSE IF matched_words = 0 THEN 0
        ELSE Mul((matched_words * One) \div Len(query_words), 800)
             + Mul(calculate_char_similarity(query_lower, filename_lower), 200)

\* search::hybrid_similarity
hybrid_similarity(vector_sim, filename_sim, vector_weight, filename_weight) ==
    Mul(vector_sim, vector_weight) + Mul(filename_sim, filename_weight)

\* api/search.rs adjust_similarity_for_file_length; the result is clamped to
\* [0, 1].
adjust_similarity_for_file_length(base_similarity, file_name, file_size, query_word_count) ==
    LET file_name_word_count == Len(Split(file_name, NameSeparators))
        a1 == IF file_name_word_count <= 2
              THEN Mul(base_similarity, IF file_name_word_count = 1 THEN 750 ELSE 850)
              ELSE base_similarity
        a2 == IF file_size < 100 THEN Mul(a1, 850)
              ELSE IF file_size < 500 THEN Mul(a1, 920)
              ELSE a1
        a3 == IF query_word_count <= 2 /\ file_name_word_count <= 2 THEN Mul(a2, 900)
              ELSE a2
    IN  Min(Max(a3, 0), One)

SemanticKeywords ==
    {<<"c", "a", "l", "c", "u", "l", "u", "s">>, <<"a", "l", "g", "e", "b", "r", "a">>,
     <<"g", "e", "o", "m", "e", "t", "r", "y">>, <<"p", "h", "y", "s", "i", "c", "s">>,
     <<"c", "h", "e", "m", "i", "s", "t", "r", "y">>, <<"b", "i", "o", "l", "o", "g", "y">>,
     <<"h", "i", "s", "t", "o", "r", "y">>,
     <<"l", "i", "t", "e", "r", "a", "t", "u", "r", "e">>,
     <<"p", "h", "i", "l", "o", "s", "o", "p", "h", "y">>,
     <<"p", "s", "y", "c", "h", "o", "l", "o", "g", "y">>,
     <<"s", "o", "c", "i", "o", "l", "o", "g", "y">>,
     <<"p", "r", "o", "g", "r", "a", "m", "m", "i", "n", "g">>,
     <<"a", "l", "g", "o", "r", "i", "t", "h", "m">>,
     <<"d", "a", "t", "a", "b", "a", "s", "e">>, <<"n", "e", "t", "w", "o", "r", "k">>,
     <<"s", "e", "c", "u", "r", "i", "t", "y">>, <<"h", "o", "m", "e", "w", "o", "r", "k">>,
     <<"a", "s", "s", "i", "g", "n", "m", "e", "n", "t">>,
     <<"p", "r", "o", "j", "e", "c", "t">>, <<"r", "e", "p", "o", "r", "t">>,
     <<"e", "s", "s", "a", "y">>, <<"t", "h", "e", "s", "i", "s">>,
     <<"m", "a", "t", "h", "e", "m", "a", "t", "i", "c", "s">>, <<"m", "a", "t", "h">>,
     <<"s", "c", "i", "e", "n", "c", "e">>,
     <<"e", "n", "g", "i", "n", "e", "e", "r", "i", "n", "g">>,
     <<"c", "o", "m", "p", "u", "t", "e", "r">>}

\* The score of a record with a vector, from its two similarities
\* (api/search.rs:172-224, 277-333).
HybridFrom(query, vector_sim, filename_sim, meta) ==
    LET query_lower  == ToLower(query)
        word_count   == Len(Split(query, Whitespace))
        has_extension == \E i \in 1..Len(query) : query[i] = "."
        is_short     == Len(query) < 20
        is_semantic_keyword ==
            \E kw \in SemanticKeywords : query_lower = kw \/ StartsWith(query_lower, kw)
        is_filename_query ==
            \/ has_extension
            \/ word_count > 1 /\ is_short /\ filename_sim > 700
            \/ word_count = 1 /\ ~is_semantic_keyword /\ filename_sim > 800
        h0 == IF is_filename_query
              THEN hybrid_similarity(vector_sim, filename_sim, 300, 700)
              ELSE hybrid_similarity(vector_sim, filename_sim, 800, 200)
        h1 == IF filename_sim < 100 /\ vector_sim > 600 THEN Mul(h0, 800) ELSE h0
        h2 == IF word_count = 1 /\ filename_sim < 300 THEN Mul(h1, 850) ELSE h1
    IN  adjust_similarity_for_file_length(h2, meta.file_name, meta.file_size, word_count)

\* api/search.rs:168-225, 269-335
HybridScore(query, vector_sim, meta) ==
    HybridFrom(query, vector_sim, filename_similarity(query, meta.file_name), meta)

(***************************************************************************)
(* HnswIndex::search and HnswIndex::remove.                                *)
(***************************************************************************)
\* The element BinaryHeap::peek_mut yields: one of least similarity (the
\* lowest slot among equals).
HeapTop(heap) ==
    CHOOSE x \in heap :
        \A y \in heap : x.similarity < y.similarity
                        \/ (x.similarity = y.similarity /\ x.index <= y.index)

\* A search that returns every entry in slot order, whatever k is.
EverySlot(h, query_embedding, k, n) ==
    {[similarity |-> cosine_similarity(query_embedding, h.embeddings[i]), index |-> i - 1] :
        i \in 1..n}

\* The heap of search after the first n vectors (hnsw_index.rs:86-99).
RECURSIVE HeapAfter(_, _, _, _)
HeapAfter(h, query_embedding, k, n) ==
    IF n = 0 THEN {}
    ELSE LET heap == HeapAfter(h, query_embedding, k, n - 1)
             item == [similarity |-> cosine_similarity(query_embedding, h.embeddings[n]),
                      index |-> n - 1]
         IN  IF Cardinality(heap) < k THEN heap \cup {item}
             ELSE IF heap = {} THEN heap
             ELSE IF item.similarity > HeapTop(heap).similarity
             THEN (heap \ {HeapTop(heap)}) \cup {item}
             ELSE heap

\* slice::sort_by(|a, b| b.1.partial_cmp(&a.1)...): a stable sort by
\* descending similarity.
RECURSIVE SortBySimilarity(_)
SortBySimilarity(results) ==
    IF results = <<>> THEN <<>>
    ELSE LET best == CHOOSE i \in 1..Len(results) :
                         /\ \A j \in 1..Len(results) :
                                results[j].similarity <= results[i].similarity
                         /\ \A j \in 1..(i - 1) :
                                results[j].similarity < results[i].similarity
         IN  <<results[best]>> \o
             SortBySimilarity(SubSeq(results, 1, best - 1) \o
                              SubSeq(results, best + 1, Len(results)))

\* A set of heap items as a sequence in slot order.
RECURSIVE HeapItems(_)
HeapItems(heap) ==
    IF heap = {} THEN <<>>
    ELSE LET first == CHOOSE x \in heap : \A y \in heap : x.index <= y.index
         IN  <<first>> \o HeapItems(heap \ {first})

\* hnsw_index.rs:108-112: the kept slots with their records.
WithMetadata(h, kept) ==
    [i \in 1..Len(kept) |->
        [metadata |-> h.metadata_list[kept[i].index + 1],
         similarity |-> kept[i].similarity]]

\* HnswIndex::search: None is the Err of a dimension mismatch.
HnswSearch(h, query_embedding, k) ==
    IF Len(query_embedding) # h.dimensions THEN None
    ELSE Some(WithMetadata(h, SortBySimilarity(
                  HeapItems(HeapAfter(h, query_embedding, k, Len(h.embeddings))))))

\* Vec::swap and Vec::pop on a sequence (slots 0-based).
SwapRemove(seq, idx) ==
    LET swapped == [seq EXCEPT ![idx + 1] = seq[Len(seq)]]
    IN  SubSeq(swapped, 1, Len(seq) - 1)

\* HnswIndex::remove
HnswRemove(h, file_path) ==
    LET hits == {i \in 1..Len(h.metadata_list) : h.metadata_list[i].file_path = file_path}
    IN  IF hits = {} THEN h
        ELSE LET idx      == (CHOOSE i \in hits : \A j \in hits : i <= j) - 1
                 last_idx == Len(h.embeddings) - 1
                 moved    == IF idx # last_idx
                             THEN MapInsert(h.id_to_index,
                                            h.metadata_list[last_idx + 1].id, idx)
                             ELSE h.id_to_index
             IN  [embeddings    |-> SwapRemove(h.embeddings, idx),
                  metadata_list |-> SwapRemove(h.metadata_list, idx),
                  id_to_index   |-> {e \in moved : e.key # h.metadata_list[idx + 1].id},
                  dimensions    |-> h.dimensions]

(***************************************************************************)
(* The search handler (api/search.rs): filters, deduplication, ordering    *)
(* and truncation.                                                         *)
(***************************************************************************)
\* The civil month and year of a Unix timestamp (chrono's Datelike on
\* Local.timestamp_opt(t, 0), the local zone being UTC).
CivilDate(timestamp) ==
    LET z   == (timestamp \div 86400) + 719468
        era == z \div 146097
        doe == z - era * 146097
        yoe == (doe - (doe \div 1460) + (doe \div 36524) - (doe \div 146096)) \div 365
        doy == doe - (365 * yoe + (yoe \div 4) - (yoe \div 100))
        mp  == (5 * doy + 2) \div 153
        m   == IF mp < 10 THEN mp + 3 ELSE mp - 9
    IN  [month |-> m, year |-> yoe + era * 400 + (IF m <= 2 THEN 1 ELSE 0)]

\* api/search.rs matches_date_range
matches_date_range(timestamp, date_range) ==
    /\ date_range.start # None => timestamp >= Get(date_range.start)
    /\ date_range.end # None => timestamp <= Get(date_range.end)
    /\ date_range.month # None => CivilDate(timestamp).month = Get(date_range.month)
    /\ date_range.year # None => CivilDate(timestamp).year = Get(date_range.year)

SeqToSet(seq) == {seq[i] : i \in 1..Len(seq)}

\* The global exclusion test: the record's extension, lowercased, is one of
\* the excluded extensions, lowercased.
ExtensionExcluded(meta, excluded_extensions) ==
    \E e \in SeqToSet(excluded_extensions) :
        ToLower(e) = ToLower(ExtensionOr(meta.file_path, <<>>))

\* A filter stage that lets every record through.
AdmitAll(meta, filters, excluded_extensions) == TRUE

\* The predicate of apply_filters (api/search.rs:465-514).
PassesFilters(meta, filters, excluded_extensions) ==
    /\ filters.date_range # None =>
           matches_date_range(meta.modified_time, Get(filters.date_range))
    /\ filters.file_types # None =>
           ToLower(ExtensionOr(meta.file_path, <<>>)) \in SeqToSet(Get(filters.file_types))
    /\ filters.folder_paths # None =>
           \E folder \in SeqToSet(Get(filters.folder_paths)) :
               Contains(ToLower(meta.file_path), ToLower(folder))
    /\ ~ExtensionExcluded(meta, excluded_extensions)

\* api/search.rs:383-414: the per-request filters when one of them is set,
\* nothing when the request has a filters object with none set, and the
\* global exclusion alone when it has no filters object.
FilterResults(results, filters, excluded_extensions) ==
    IF filters # None
    THEN IF \/ Get(filters).date_range # None
            \/ Get(filters).file_types # None
            \/ Get(filters).folder_paths # None
         THEN SelectSeq(results, LAMBDA r :
                  PassesFilters(r.metadata, Get(filters), excluded_extensions))
         ELSE results
    ELSE SelectSeq(results, LAMBDA r : ~ExtensionExcluded(r.metadata, excluded_extensions))

\* Lexicographic order of strings, by the position of each character in
\* Alphabet.
Alphabet ==
    <<" ", "#", "(", ")", "-", ".", "/">> \o DigitChars \o UpperChars \o <<"_">> \o
    LowerChars \o <<"~">>

CharRank(c) == CHOOSE k \in 1..Len(Alphabet) : Alphabet[k] = c

RECURSIVE StrLess(_, _)
StrLess(a, b) ==
    IF b = <<>> THEN FALSE
    ELSE IF a = <<>> THEN TRUE
    ELSE IF Head(a) = Head(b) THEN StrLess(Tail(a), Tail(b))
    ELSE CharRank(Head(a)) < CharRank(Head(b))

\* A fold that keeps the first result of each key.
KeepFirst(group, kept) == kept

\* The entry of `seen` for one key after the loop of deduplicate_by_embedding:
\* the first result with the key, replaced by each later one of smaller path.
RECURSIVE KeptOf(_, _)
KeptOf(group, kept) ==
    IF group = <<>> THEN kept
    ELSE KeptOf(Tail(group),
                IF StrLess(Head(group).metadata.file_path, kept.metadata.file_path)
                THEN Head(group) ELSE kept)

\* api/search.rs deduplicate_by_embedding.  key_order lists the vectors in the
\* order the HashMap `seen` yields its values.
deduplicate_by_embedding(results, bytes, key_order) ==
    LET stored(r)  == r.metadata.embedding_length > 0
        loads(r)   == stored(r) /\ GetEmbedding(bytes, r.metadata) # None
        without_embedding ==
            SelectSeq(results, LAMBDA r : ~stored(r)) \o
            SelectSeq(results, LAMBDA r : stored(r) /\ ~loads(r))
        group(key) ==
            SelectSeq(results, LAMBDA r : loads(r) /\ Get(GetEmbedding(bytes, r.metadata)) = key)
        keys == SelectSeq(key_order, LAMBDA key : group(key) # <<>>)
    IN  IF SelectSeq(results, stored) = <<>> THEN without_embedding
        ELSE [i \in 1..Len(keys) |-> KeptOf(Tail(group(keys[i])), Head(group(keys[i])))]
             \o without_embedding

\* Iterator::take
Take(seq, n) == SubSeq(seq, 1, Min(n, Len(seq)))

\* Storage::get_files_without_embeddings: the rows that address no vector.
GetFilesWithoutEmbeddings(rows) ==
    SelectSeq(RowsById(rows), LAMBDA r : r.embedding_length = 0)

MaxLimit == 200

\* request.limit.unwrap_or(default_limit).min(200)
EffectiveLimit(request, cfg) ==
    Min(IF request.limit = None THEN cfg.max_search_results ELSE Get(request.limit),
        MaxLimit)

\* api/search.rs:168-226: the hybrid score of each ANN result.
ScoreFound(query, found) ==
    [i \in 1..Len(found) |->
        [metadata |-> found[i].metadata,
         similarity |-> HybridScore(query, found[i].similarity, found[i].metadata)]]

\* api/search.rs:163-229: nothing when the ANN search fails.
ScoreAnn(query, found) ==
    IF found = None THEN <<>> ELSE ScoreFound(query, Get(found))

\* Candidates through the ANN index (api/search.rs:137-236): empty when there
\* is no index, the index is empty, or its search fails.
AnnCandidates(query, query_embedding, index, limit) ==
    IF index = None THEN <<>>
    ELSE IF Len(Get(index).embeddings) = 0 THEN <<>>
    ELSE ScoreAnn(query, HnswSearch(Get(index), query_embedding, limit * 2))

\* Candidates through the linear pass over Storage (api/search.rs:239-351).
LinearCandidates(query, query_embedding, loaded) ==
    [i \in 1..Len(loaded) |->
        [metadata |-> loaded[i].metadata,
         similarity |-> HybridScore(query,
                                    cosine_similarity(query_embedding, loaded[i].embedding),
                                    loaded[i].metadata)]]

\* api/search.rs:360-374: a record without a vector is a candidate when its
\* file name is similar enough to the query.
KeywordScored(query, hits) ==
    [i \in 1..Len(hits) |->
        [metadata |-> hits[i],
         similarity |-> adjust_similarity_for_file_length(
                            filename_similarity(query, hits[i].file_name),
                            hits[i].file_name, hits[i].file_size,
                            Len(Split(query, Whitespace)))]]

\* The keyword sweep over the records without a vector (api/search.rs:353-381).
KeywordCandidates(query, rows) ==
    KeywordScored(query,
                  SelectSeq(GetFilesWithoutEmbeddings(rows),
                            LAMBDA m : filename_similarity(query, m.file_name) > 100))

\* api/search.rs:436-442
SearchResult(r) ==
    [file_path |-> r.metadata.file_path, file_name |-> r.metadata.file_name,
     similarity |-> r.similarity]

\* The candidates left in the order they were collected.
KeepOrder(results) == results

\* api/search.rs:429: the ordering applied to the candidates before truncation.
OrderResults(results) == SortBySimilarity(results)

\* api/search.rs:432-443
TopResults(sorted, limit) ==
    [i \in 1..Min(limit, Len(sorted)) |-> SearchResult(Take(sorted, limit)[i])]

\* api/search.rs:423-426
Deduplicated(filtered, bytes, cfg, key_order) ==
    IF cfg.filter_duplicate_files
    THEN deduplicate_by_embedding(filtered, bytes, key_order)
    ELSE filtered

\* api/search.rs:383-454: from the candidates to the response.
Respond(results, request, bytes, cfg, key_order, limit) ==
    Some(TopResults(
             OrderResults(
                 Deduplicated(
                     FilterResults(results, request.filters, cfg.excluded_extensions),
                     bytes, cfg, key_order)),
             limit))

\* api/search.rs:239-381: the linear pass replaces an empty ANN result, and an
\* Err of get_all_embeddings ends the request.
FromCandidates(ann, loaded, query, query_embedding, request, rows, bytes, cfg, key_order, limit) ==
    IF ann = <<>> /\ loaded = None THEN None
    ELSE Respond((IF ann # <<>> THEN ann
                  ELSE LinearCandidates(query, query_embedding, Get(loaded)))
                 \o KeywordCandidates(query, rows),
                 request, bytes, cfg, key_order, limit)

\* api/search.rs:110-137: limit, query vector, then the candidates.
Answer(query, query_embedding, request, rows, bytes, index, cfg, key_order, limit) ==
    FromCandidates(AnnCandidates(query, query_embedding, index, limit),
                   GetAllEmbeddings(rows, bytes),
                   query, query_embedding, request, rows, bytes, cfg, key_order, limit)

\* search_files.  embedded is the Result of embedding the query; the value is
\* None for an error status, Some(results) for a response.
search_files(request, embedded, rows, bytes, index, cfg, key_order) ==
    IF Trim(request.query) = <<>> THEN None
    ELSE IF embedded = None THEN None
    ELSE Answer(Trim(request.query), Get(embedded), request, rows, bytes, index, cfg,
                key_order, EffectiveLimit(request, cfg))

(***************************************************************************)
(* Searches over a changing index: records are written by index_file and   *)
(* removed by delete_file, the ANN index is rebuilt from Storage or        *)
(* cleared, and /api/search is answered from whatever the two hold.        *)
(***************************************************************************)
MaxWrites == 3
MaxSearches == 1

SearchVectors == {<<1, 0>>, <<3, 4>>}

PathALog == <<"/", "w", "/", "a", ".", "t", "x", "t", ".", "l", "o", "g">>

SearchFs ==
    [p \in {PathA, PathB, PathALog} |-> Some(RegularFile(1, 1, Some(Small)))]

QueryA == <<" ", "a", ".", "t", "x", "t">>
QueryBlank == <<" ">>

ExtTxt == <<"t", "x", "t">>
ExtMdUpper == <<"M", "D">>

NoFilters == [date_range |-> None, file_types |-> None, folder_paths |-> None]

Requests ==
    {[query |-> q, limit |-> l, filters |-> f] :
        q \in {QueryA, QueryBlank},
        l \in {None, Some(0), Some(2), Some(300)},
        f \in {None, Some(NoFilters), Some([NoFilters EXCEPT !.file_types = Some(<<ExtTxt>>)])}}

Configs ==
    {DefaultConfig,
     [DefaultConfig EXCEPT !.max_search_results = 1,
                           !.excluded_extensions = <<ExtMdUpper>>,
                           !.filter_duplicate_files = TRUE]}

\* The run goes on until its last search has been answered.
Running == searches < MaxSearches

\* index_file for one file, run to completion (SearchFs holds small files:
\* one embedding each, or none for a metadata-only file).
IndexOneFile(path, outcome) ==
    /\ Running
    /\ next_id <= MaxWrites
    /\ LET st == IndexFile([files |-> files, blob |-> blob, next_id |-> next_id],
                           path, Get(fs[path]), <<outcome>>).st
       IN  /\ files' = st.files
           /\ blob' = st.blob
           /\ next_id' = st.next_id
    /\ UNCHANGED <<task, calls, passed, fs, indexVars, watchVars, searchVars, scanVars, callVars, settingsVars, parserVars>>

\* Storage::delete_file
DeleteOneFile(path) ==
    /\ Running
    /\ \E r \in files : r.file_path = path
    /\ files' = DeleteRow(files, path)
    /\ UNCHANGED <<blob, next_id, task, calls, passed, fs, indexVars, watchVars, searchVars, scanVars, callVars, settingsVars, parserVars>>

\* The rebuild that ends an indexing request (api/index.rs:54-61).
RebuildIndex ==
    /\ Running
    /\ hnsw' = RebuiltIndex(hnsw, files, blob)
    /\ hnsw' # hnsw
    /\ UNCHANGED <<storageVars, task, calls, passed, fs, run, is_indexing, progress,
                   watchVars, searchVars, scanVars, callVars, settingsVars, parserVars>>

\* POST /api/index/clear (api/index.rs:103-121), run to completion.
ClearIndex ==
    /\ Running
    /\ files # {} \/ hnsw # None
    /\ files' = {}
    /\ blob' = <<>>
    /\ hnsw' = None
    /\ UNCHANGED <<next_id, task, calls, passed, fs, run, is_indexing, progress,
                   watchVars, searchVars, scanVars, callVars, settingsVars, parserVars>>

\* POST /api/search
Search(request, embedded, key_order) ==
    /\ Running
    /\ search' = Some([request |-> request,
                       limit |-> EffectiveLimit(request, config),
                       response |-> search_files(request, embedded, files, blob, hnsw,
                                                 config, key_order)])
    /\ searches' = searches + 1
    /\ UNCHANGED <<storageVars, task, calls, passed, fs, indexVars, watchVars, config, scanVars, callVars, settingsVars, parserVars>>

\* The orders in which the HashMap of the deduplication can yield its values.
KeyOrders ==
    IF config.filter_duplicate_files THEN Orders(SearchVectors)
    ELSE {CHOOSE o \in Orders(SearchVectors) : TRUE}

SearchInit ==
    /\ EmptyStorage
    /\ task = <<>>
    /\ calls = 0
    /\ fs = SearchFs
    /\ NoIndexRuns
    /\ NoWatcher
    /\ NoScan
    /\ NoCall
    /\ NoSettings
    /\ NoParser
    /\ config \in Configs
    /\ search = None
    /\ searches = 0

SearchNext ==
    \/ \E p \in DOMAIN fs, outcome \in {None} \cup {Some(v) : v \in SearchVectors} :
           IndexOneFile(p, outcome)
    \/ \E p \in DOMAIN fs : DeleteOneFile(p)
    \/ RebuildIndex
    \/ ClearIndex
    \/ \E request \in Requests, embedded \in {None, Some(<<1, 0>>), Some(<<0, 1>>)},
          key_order \in KeyOrders :
           Search(request, embedded, key_order)

SpecSearch == SearchInit /\ [][SearchNext]_vars

\* The results of the last search response.
LastResults == Get(Get(search).response)

(***************************************************************************)
(* C10: every search response is sorted by non-increasing score and holds  *)
(* at most `limit` elements, whatever Storage and the ANN index hold.      *)
(***************************************************************************)
SearchSortedAndBounded ==
    (search # None /\ Get(search).response # None) =>
        /\ \A i \in 1..(Len(LastResults) - 1) :
               LastResults[i].similarity >= LastResults[i + 1].similarity
        /\ Len(LastResults) <= Get(search).limit

\* Three records are indexed and a search with limit 2 returns two results of
\* different scores.
SearchTruncatedWitness ==
    /\ search # None
    /\ Get(search).response # None
    /\ Cardinality(files) = 3
    /\ Get(search).limit = 2
    /\ Len(LastResults) = 2
    /\ LastResults[1].similarity > LastResults[2].similarity

(***************************************************************************)
(* The FileWatcher (file_watcher.rs).  The notify callback sends each      *)
(* event to an unbounded channel; one spawned task receives from it and    *)
(* awaits handle_event for each event.  An event is [seq, kind, path,      *)
(* is_dir]: is_dir is notify's RemoveKind/CreateKind, which handle_event   *)
(* does not look at.                                                       *)
(***************************************************************************)
MaxEvents == 3

WatchFiles == {PathA, PathB, PathC, PathLog}
WatchVectors == {<<1, 0>>, <<0, 1>>}

Version1 == RegularFile(1, 1, Some(Small))
Version2 == RegularFile(2, 2, Some(Small))

\* std::path::Path::parent
Parent(p) == SubSeq(p, 1, LastIndexOf(p, "/") - 1)

IsDir(tree, p) == p \in DOMAIN tree /\ tree[p] # None /\ ~Get(tree[p]).is_file

Event(kind, path, is_dir) ==
    [seq |-> delivered + 1, kind |-> kind, path |-> path, is_dir |-> is_dir]

\* The notify callback (file_watcher.rs:32-36).
Send(event) ==
    /\ queue' = Append(queue, event)
    /\ delivered' = delivered + 1

\* Something outside the program creates a file in a watched directory.
FsCreate(p) ==
    /\ Running
    /\ delivered < MaxEvents
    /\ fs[p] = None
    /\ IsDir(fs, Parent(p))
    /\ fs' = [fs EXCEPT ![p] = Some(Version1)]
    /\ Send(Event("create", p, FALSE))
    /\ UNCHANGED <<storageVars, task, calls, passed, indexVars, inflight, handled, searchVars, scanVars, callVars, settingsVars, parserVars>>

\* ... rewrites a file.
FsModify(p) ==
    /\ Running
    /\ delivered < MaxEvents
    /\ fs[p] = Some(Version1)
    /\ fs' = [fs EXCEPT ![p] = Some(Version2)]
    /\ Send(Event("modify", p, FALSE))
    /\ UNCHANGED <<storageVars, task, calls, passed, indexVars, inflight, handled, searchVars, scanVars, callVars, settingsVars, parserVars>>

\* ... removes a file.
FsRemoveFile(p) ==
    /\ Running
    /\ delivered < MaxEvents
    /\ IsFile(fs, p)
    /\ fs' = [fs EXCEPT ![p] = None]
    /\ Send(Event("remove", p, FALSE))
    /\ UNCHANGED <<storageVars, task, calls, passed, indexVars, inflight, handled, searchVars, scanVars, callVars, settingsVars, parserVars>>

\* ... removes an empty directory, or moves a directory with its files away.
FsRemoveDir(d) ==
    /\ Running
    /\ delivered < MaxEvents
    /\ IsDir(fs, d)
    /\ fs' = [p \in DOMAIN fs |->
                 IF p = d \/ StartsWith(p, d \o <<"/">>) THEN None ELSE fs[p]]
    /\ Send(Event("remove", d, TRUE))
    /\ UNCHANGED <<storageVars, task, calls, passed, indexVars, inflight, handled, searchVars, scanVars, callVars, settingsVars, parserVars>>

\* A loop that would spawn each handle_event instead of awaiting it.
AlwaysReceive(handlers) == TRUE

\* The consumer loop takes the next event only when the handle_event it
\* awaits has returned (file_watcher.rs:27-29).
RecvGuard(handlers) == handlers = {}

\* What handle_event does with the event, decided when it starts
\* (file_watcher.rs:54-76): the tests of the path on the filesystem, and for
\* a file to index the metadata and text that index_file reads.
Route(tree, event) ==
    IF event.kind \in {"create", "modify"}
    THEN IF IsFile(tree, event.path) /\ ~ShouldExcludeFile(event.path)
         THEN [name |-> "index", file |-> tree[event.path]]
         ELSE [name |-> "skip", file |-> None]
    ELSE IF IsFile(tree, event.path)
         THEN [name |-> "delete_file", file |-> None]
         ELSE [name |-> "delete_prefix", file |-> None]

Receive ==
    /\ queue # <<>>
    /\ RecvGuard(inflight)
    /\ inflight' = inflight \cup {[event |-> Head(queue), route |-> Route(fs, Head(queue))]}
    /\ queue' = Tail(queue)
    /\ UNCHANGED <<storageVars, task, calls, passed, fs, indexVars, handled, delivered,
                   searchVars, scanVars, callVars, settingsVars, parserVars>>

\* The rows left by the Remove branch for a path that is not a file now
\* (file_watcher.rs:85-92).
DeletePrefix(rows, path) == {r \in rows : ~StartsWith(r.file_path, path)}

\* Storage after handle_event has run to its end.
Handled(st, h, outcome) ==
    IF h.route.name = "index"
    THEN IndexFile(st, h.event.path, Get(h.route.file), <<outcome>>).st
    ELSE IF h.route.name = "delete_file"
    THEN [st EXCEPT !.files = DeleteRow(st.files, h.event.path)]
    ELSE IF h.route.name = "delete_prefix"
    THEN [st EXCEPT !.files = DeletePrefix(st.files, h.event.path)]
    ELSE st

\* handle_event returns.  outcome is the Result of the embedding request of
\* index_file, None where none is made.
Complete(h, outcome) ==
    /\ h \in inflight
    /\ (outcome # None) =>
           (h.route.name = "index"
            /\ EmbeddingCount(h.event.path, Get(h.route.file)) > 0)
    /\ LET st == Handled([files |-> files, blob |-> blob, next_id |-> next_id], h, outcome)
       IN  /\ files' = st.files
           /\ blob' = st.blob
           /\ next_id' = st.next_id
    /\ inflight' = inflight \ {h}
    /\ handled' = Append(handled, [event |-> h.event, route |-> h.route.name,
                                   outcome |-> outcome])
    /\ UNCHANGED <<task, calls, passed, fs, indexVars, queue, delivered, searchVars, scanVars, callVars, settingsVars, parserVars>>

WatchRequest == [query |-> QueryA, limit |-> None, filters |-> None]

\* Storage after index_file, with vector v, of each file of paths in turn.
RECURSIVE IndexAll(_, _, _, _)
IndexAll(st, tree, paths, v) ==
    IF paths = <<>> THEN st
    ELSE IndexAll(IndexFile(st, Head(paths), Get(tree[Head(paths)]),
                            [k \in 1..EmbeddingCount(Head(paths), Get(tree[Head(paths)]))
                                |-> Some(v)]).st,
                  tree, Tail(paths), v)

WatchFs ==
    [p \in WatchFiles \cup {Root, DirD} |->
        IF p \in {Root, DirD} THEN Some(Directory) ELSE Some(Version1)]

\* The process has started on an index written by an earlier run: Storage
\* holds a record for each file, the ANN index is not built yet.
WatchInit ==
    /\ fs = WatchFs
    /\ LET st == IndexAll([files |-> {}, blob |-> <<>>, next_id |-> 1], WatchFs,
                          <<PathA, PathB, PathC, PathLog>>, <<1, 0>>)
       IN  /\ files = st.files
           /\ blob = st.blob
           /\ next_id = st.next_id
    /\ passed = {}
    /\ task = <<>>
    /\ calls = 0
    /\ NoIndexRuns
    /\ NoWatcher
    /\ NoScan
    /\ NoCall
    /\ NoSettings
    /\ NoParser
    /\ NoSearch

WatchNext ==
    \/ \E p \in WatchFiles :
        \/ FsCreate(p)
        \/ FsModify(p)
        \/ FsRemoveFile(p)
    \/ FsRemoveDir(DirD)
    \/ Receive
    \/ \E h \in inflight, outcome \in {None} \cup {Some(v) : v \in WatchVectors} :
           Complete(h, outcome)
    \/ RebuildIndex
    \/ \E embedded \in {Some(<<1, 0>>)} : Search(WatchRequest, embedded, <<>>)

SpecWatcher == WatchInit /\ [][WatchNext]_vars

\* The event whose handling the step completes, if it completes one.
Completing(h) == h \in inflight /\ h \notin inflight'

LastHandled == handled[Len(handled)]

ResponsePaths(s) == {Get(Get(s).response)[i].file_path : i \in DOMAIN Get(Get(s).response)}

\* The file at p is gone, a Remove event for it has been handled, and the
\* watcher has nothing left to do.
RemovalHandled(p) ==
    /\ fs[p] = None
    /\ queue = <<>>
    /\ inflight = {}
    /\ \E i \in DOMAIN handled :
           handled[i].event.kind = "remove" /\ handled[i].event.path = p

\* C4: once the watcher has handled the Remove event of a file, no search
\* response lists that file, whether the search goes through the ANN index
\* or through the linear scan.
NoRemovedFileInResponse ==
    [][searches' # searches =>
           \A p \in WatchFiles : RemovalHandled(p) => p \notin ResponsePaths(search')]_vars

\* C5: when the watcher has handled a Create or Modify event of an
\* admissible file whose embedding succeeded, Storage and the ANN index both
\* hold the file with that vector.
CreateModifyPropagated ==
    [][\A h \in inflight :
           (Completing(h) /\ h.route.name = "index" /\ LastHandled'.outcome # None) =>
               /\ GetFileMetadata(files', h.event.path) # None
               /\ GetEmbedding(blob', Get(GetFileMetadata(files', h.event.path)))
                      = LastHandled'.outcome
               /\ hnsw' # None
               /\ \E i \in DOMAIN Get(hnsw').metadata_list :
                      /\ Get(hnsw').metadata_list[i].file_path = h.event.path
                      /\ Get(hnsw').embeddings[i] = Get(LastHandled'.outcome)]_vars

\* C6: handling Remove(p) deletes only the record of p when p was a file,
\* and only records of paths inside p when p was a directory; a sibling
\* whose path merely starts with the characters of p keeps its record.
RemoveDeletesOnlyTarget ==
    [][\A h \in inflight :
           (Completing(h) /\ h.event.kind = "remove") =>
               \A r \in files \ files' :
                   IF h.event.is_dir
                   THEN StartsWith(r.file_path, h.event.path \o <<"/">>)
                   ELSE r.file_path = h.event.path]_vars

\* C7: the watcher handles one event at a time, in the order of delivery:
\* at most one handle_event is running, the events handled so far are the
\* first ones delivered, in order, and the one being handled is the next.
OneEventAtATime ==
    /\ Cardinality(inflight) <= 1
    /\ \A i \in DOMAIN handled : handled[i].event.seq = i
    /\ \A h \in inflight : h.event.seq = Len(handled) + 1
    /\ \A i \in DOMAIN queue : queue[i].seq = Len(handled) + Cardinality(inflight) + i

\* An event is being handled after an earlier one, while a later one waits.
EventWaitsForHandler ==
    /\ Len(handled) >= 1
    /\ inflight # {}
    /\ queue # <<>>

(***************************************************************************)
(* Startup reconciliation: Indexer::perform_startup_scan                   *)
(* (indexer.rs:641-769), run to its end on one Indexer while the           *)
(* filesystem stands still.                                                *)
(***************************************************************************)
MaxChanges == 2
MaxScans == 2

\* A scan that took every record for current.
NeverChanged(row, file) == FALSE

\* A record no longer describes the file on disk (indexer.rs:699).
Changed(row, file) ==
    row.modified_time # file.modified_time \/ row.file_size # file.file_size

\* The type test of perform_startup_scan (indexer.rs:702, 712).
Supported(path) == ShouldIndexMetadataOnly(path) \/ CanParse(path)

\* The walk over the entries in the order given: map is db_files_map, from
\* which each path met is removed, to_index is files_to_index.
RECURSIVE ScanEntries(_, _, _, _)
ScanEntries(tree, entries, map, to_index) ==
    IF entries = <<>> THEN [map |-> map, to_index |-> to_index]
    ELSE IF ShouldExcludeFile(Head(entries))
    THEN ScanEntries(tree, Tail(entries), map, to_index)
    ELSE IF GetFileMetadata(map, Head(entries)) # None
    THEN ScanEntries(tree, Tail(entries), DeleteRow(map, Head(entries)),
                     IF /\ Changed(Get(GetFileMetadata(map, Head(entries))),
                                   Get(tree[Head(entries)]))
                        /\ Supported(Head(entries))
                     THEN Append(to_index, Head(entries))
                     ELSE to_index)
    ELSE ScanEntries(tree, Tail(entries), map,
                     IF Supported(Head(entries))
                     THEN Append(to_index, Head(entries))
                     ELSE to_index)

\* Storage after delete_file for each record left in the map
\* (indexer.rs:723-730).
DeleteUnseen(st, map) ==
    [st EXCEPT !.files = {r \in st.files : GetFileMetadata(map, r.file_path) = None}]

\* Storage after index_file or index_file_metadata_only for each path of
\* to_index in turn (indexer.rs:744-761); an error is logged and the loop
\* goes on.  Every embedding request of the scan has the same outcome.
RECURSIVE IndexEach(_, _, _, _)
IndexEach(st, tree, to_index, outcome) ==
    IF to_index = <<>> THEN st
    ELSE IndexEach(
             IndexFile(st, Head(to_index), Get(tree[Head(to_index)]),
                       [k \in 1..EmbeddingCount(Head(to_index), Get(tree[Head(to_index)]))
                           |-> outcome]).st,
             tree, Tail(to_index), outcome)

\* The guards before the scan (indexer.rs:642-652).
ScanRuns(cfg, flag) ==
    /\ cfg.auto_index
    /\ cfg.indexed_directories # <<>>
    /\ ~flag

Reconciled(st, tree, walked, outcome) ==
    IndexEach(DeleteUnseen(st, walked.map), tree, walked.to_index, outcome)

perform_startup_scan(st, tree, cfg, flag, entries, outcome) ==
    IF ~ScanRuns(cfg, flag) THEN st
    ELSE Reconciled(st, tree, ScanEntries(tree, entries, st.files, <<>>), outcome)

\* The entries the walks yield: the files below the configured directories
\* that exist.
Encountered(tree, cfg) ==
    UNION {Walk(tree, cfg.indexed_directories[i]) : i \in DOMAIN cfg.indexed_directories}

\* What the history keeps of a scan: Storage before and after it, the
\* filesystem it walked, and the outcome of its embedding requests.
ScanLog(before, after, outcome) ==
    [before |-> before, after |-> after, tree |-> fs, changes |-> changes,
     outcome |-> outcome, ran |-> ScanRuns(config, is_indexing[1])]

Scanned(before, after, outcome) ==
    /\ files' = after.files
    /\ blob' = after.blob
    /\ next_id' = after.next_id
    /\ scans' = Append(scans, ScanLog(before, after, outcome))

StartupScan(entries, outcome) ==
    /\ Len(scans) < MaxScans
    /\ Scanned([files |-> files, blob |-> blob, next_id |-> next_id],
               perform_startup_scan([files |-> files, blob |-> blob, next_id |-> next_id],
                                    fs, config, is_indexing[1], entries, outcome),
               outcome)
    /\ UNCHANGED <<task, calls, passed, fs, indexVars, watchVars, searchVars, changes, callVars, settingsVars, parserVars>>

PathBig == Root \o <<"/", "b", "i", "g", ".", "m", "d">>
ScanFiles == {PathA, PathBig, PathLog, PathTmp}

\* What a program writing path p for the n-th time leaves there.
Written(p, n) == RegularFile(n, n, Some(IF p = PathBig THEN Large ELSE Small))

StillScanning == Len(scans) < MaxScans /\ changes < MaxChanges

ScanCreate(p) ==
    /\ StillScanning
    /\ fs[p] = None
    /\ fs' = [fs EXCEPT ![p] = Some(Written(p, 1))]
    /\ changes' = changes + 1
    /\ UNCHANGED <<storageVars, task, calls, passed, indexVars, watchVars, searchVars, scans, callVars, settingsVars, parserVars>>

ScanModify(p) ==
    /\ StillScanning
    /\ fs[p] = Some(Written(p, 1))
    /\ fs' = [fs EXCEPT ![p] = Some(Written(p, 2))]
    /\ changes' = changes + 1
    /\ UNCHANGED <<storageVars, task, calls, passed, indexVars, watchVars, searchVars, scans, callVars, settingsVars, parserVars>>

ScanRemove(p) ==
    /\ StillScanning
    /\ IsFile(fs, p)
    /\ fs' = [fs EXCEPT ![p] = None]
    /\ changes' = changes + 1
    /\ UNCHANGED <<storageVars, task, calls, passed, indexVars, watchVars, searchVars, scans, callVars, settingsVars, parserVars>>

\* The directory when the program last ran, and now: since then /w/a.txt
\* has been removed and /w/d.log and /w/e.tmp have been written.
EarlierFs ==
    [p \in ScanFiles \cup {Root} |->
        IF p = Root THEN Some(Directory)
        ELSE IF p \in {PathA, PathBig} THEN Some(Written(p, 1))
        ELSE None]

ScanFs ==
    [p \in ScanFiles \cup {Root} |->
        IF p = Root THEN Some(Directory)
        ELSE IF p = PathA THEN None
        ELSE Some(Written(p, 1))]

\* The process starts with the index its last run left: the records of the
\* files the directory held then.
ScanInit ==
    /\ fs = ScanFs
    /\ LET st == IndexAll([files |-> {}, blob |-> <<>>, next_id |-> 1], EarlierFs,
                          <<PathA, PathBig>>, <<1, 0>>)
       IN  /\ files = st.files
           /\ blob = st.blob
           /\ next_id = st.next_id
    /\ passed = {}
    /\ task = <<>>
    /\ calls = 0
    /\ run = <<>>
    /\ is_indexing = <<FALSE>>
    /\ progress = None
    /\ hnsw = None
    /\ NoWatcher
    /\ NoScan
    /\ NoCall
    /\ NoSettings
    /\ NoParser
    /\ \E auto_index \in BOOLEAN :
           config = [DefaultConfig EXCEPT !.auto_index = auto_index,
                                          !.indexed_directories = <<Root>>]
    /\ search = None
    /\ searches = 0

ScanNext ==
    \/ \E p \in ScanFiles :
        \/ ScanCreate(p)
        \/ ScanModify(p)
        \/ ScanRemove(p)
    \/ \E entries \in Orders(Encountered(fs, config)), outcome \in {None, Some(<<1, 0>>)} :
           StartupScan(entries, outcome)

SpecScan == ScanInit /\ [][ScanNext]_vars

\* Every embedding request of scan s succeeded.
Succeeded(s) == s.outcome # None

\* C8: startup reconciliation is idempotent: of two scans in succession with
\* no filesystem change in between, the second writes nothing to Storage.
SecondScanWritesNothing ==
    \A i \in 1..(Len(scans) - 1) :
        (/\ scans[i].changes = scans[i + 1].changes
         /\ Succeeded(scans[i])
         /\ Succeeded(scans[i + 1])) =>
            scans[i + 1].after = scans[i + 1].before

\* The files on disk below the configured directories when scan s ran.
OnDisk(s) == Encountered(s.tree, config)

\* Every file of P that had no record before scan s has one after it.
AbsentIndexed(s, P) ==
    \A p \in P :
        GetFileMetadata(s.before.files, p) = None =>
            GetFileMetadata(s.after.files, p) # None

\* Every file of P whose record differed from the file in modified_time or
\* file_size has a record with the file's values after scan s.
DifferingReindexed(s, P) ==
    \A p \in P :
        (/\ GetFileMetadata(s.before.files, p) # None
         /\ \/ Get(GetFileMetadata(s.before.files, p)).modified_time
                   # Get(s.tree[p]).modified_time
            \/ Get(GetFileMetadata(s.before.files, p)).file_size
                   # Get(s.tree[p]).file_size) =>
            /\ GetFileMetadata(s.after.files, p) # None
            /\ Get(GetFileMetadata(s.after.files, p)).modified_time
                   = Get(s.tree[p]).modified_time
            /\ Get(GetFileMetadata(s.after.files, p)).file_size
                   = Get(s.tree[p]).file_size

\* Every record scan s found in Storage whose path the walk did not meet is
\* gone after it.
UnseenDeleted(s) ==
    \A r \in s.before.files : r.file_path \notin OnDisk(s) => r \notin s.after.files

\* C9 as stated: when a scan completes with every embedding call succeeding,
\* every on-disk file absent from Storage is indexed, every on-disk file
\* whose modified_time or file_size differs from its record is re-indexed
\* with the current values, and every record whose path the walk did not
\* meet has been deleted.
ScanReconcilesEveryFile ==
    \A i \in DOMAIN scans :
        Succeeded(scans[i]) =>
            /\ AbsentIndexed(scans[i], OnDisk(scans[i]))
            /\ DifferingReindexed(scans[i], OnDisk(scans[i]))
            /\ UnseenDeleted(scans[i])

\* C9, amended: the same for a scan that ran (auto_index on, a directory
\* configured, no run in progress on the Indexer), and for the on-disk files
\* that are admissible (not excluded, metadata-only or parsable).
ScanReconcilesAdmissible ==
    \A i \in DOMAIN scans :
        (scans[i].ran /\ Succeeded(scans[i])) =>
            /\ AbsentIndexed(scans[i], {p \in OnDisk(scans[i]) : Admissible(p)})
            /\ DifferingReindexed(scans[i], {p \in OnDisk(scans[i]) : Admissible(p)})
            /\ UnseenDeleted(scans[i])

\* A scan that ran and met a new file, a rewritten file and the record of a
\* file that is gone.
ScanMetAllCases ==
    \E i \in DOMAIN scans :
        /\ scans[i].ran
        /\ Succeeded(scans[i])
        /\ GetFileMetadata(scans[i].before.files, PathLog) = None
        /\ GetFileMetadata(scans[i].after.files, PathLog) # None
        /\ scans[i].tree[PathBig] = Some(Written(PathBig, 2))
        /\ Get(GetFileMetadata(scans[i].before.files, PathBig)).modified_time = 1
        /\ Get(GetFileMetadata(scans[i].after.files, PathBig)).modified_time = 2
        /\ GetFileMetadata(scans[i].before.files, PathA) # None
        /\ scans[i].tree[PathA] = None
        /\ GetFileMetadata(scans[i].after.files, PathA) = None

(***************************************************************************)
(* Searches with filters over a fixed index: records of three months, two  *)
(* extensions and two folders, one of them without a vector; the ANN index *)
(* is absent until it is rebuilt.                                          *)
(***************************************************************************)
\* 1 Jan 1970, 1 Feb 1970 and 1 Jan 1971, in seconds.
FilterTimes == <<0, 2678400, 31536000>>

FilterFs ==
    (PathA :> Some(RegularFile(FilterTimes[1], 1, Some(Small))))
    @@ (PathB :> Some(RegularFile(FilterTimes[2], 1, Some(Small))))
    @@ (PathC :> Some(RegularFile(FilterTimes[3], 1, Some(Small))))
    @@ (PathLog :> Some(RegularFile(FilterTimes[3], 1, Some(Small))))

QueryLog == <<"l", "o", "g">>
ExtMd == <<"m", "d">>
ExtLog == <<"l", "o", "g">>
FolderDUpper == <<"/", "D">>

DateRanges ==
    [start : {None, Some(FilterTimes[2])}, end : {None, Some(FilterTimes[2])},
     month : {None, Some(1)}, year : {None, Some(1971)}]

FilterChoices ==
    [date_range : {None} \cup {Some(d) : d \in DateRanges},
     file_types : {None, Some(<<ExtMd, ExtLog>>), Some(<<ExtMdUpper>>)},
     folder_paths : {None, Some(<<FolderDUpper>>)}]

FilterRequests ==
    {[query |-> QueryLog, limit |-> None, filters |-> f] :
        f \in {None} \cup {Some(c) : c \in FilterChoices}}

FilterInit ==
    /\ fs = FilterFs
    /\ LET st == IndexAll([files |-> {}, blob |-> <<>>, next_id |-> 1], FilterFs,
                          <<PathA, PathB, PathC, PathLog>>, <<1, 0>>)
       IN  /\ files = st.files
           /\ blob = st.blob
           /\ next_id = st.next_id
    /\ passed = {}
    /\ task = <<>>
    /\ calls = 0
    /\ NoIndexRuns
    /\ NoWatcher
    /\ NoScan
    /\ NoCall
    /\ NoSettings
    /\ NoParser
    /\ NoSearch

FilterNext ==
    \/ RebuildIndex
    \/ \E request \in FilterRequests : Search(request, Some(<<1, 0>>), <<>>)

SpecFilters == FilterInit /\ [][FilterNext]_vars

\* The record Storage holds for a result.
RecordOf(result) == Get(GetFileMetadata(files, result.file_path))

\* C11: every result of a search satisfies every filter set in its request:
\* its modified_time lies within start and end and has the month and year
\* asked for, its lowercased extension is one of file_types, and its path
\* contains one of folder_paths without regard to case.
ResultsSatisfyFilters ==
    (search # None /\ Get(search).response # None
     /\ Get(search).request.filters # None) =>
        \A i \in DOMAIN LastResults :
            LET meta    == RecordOf(LastResults[i])
                filters == Get(Get(search).request.filters)
            IN  /\ filters.date_range # None =>
                    LET d == Get(filters.date_range)
                    IN  /\ d.start # None => meta.modified_time >= Get(d.start)
                        /\ d.end # None => meta.modified_time <= Get(d.end)
                        /\ d.month # None =>
                               CivilDate(meta.modified_time).month = Get(d.month)
                        /\ d.year # None =>
                               CivilDate(meta.modified_time).year = Get(d.year)
                /\ filters.file_types # None =>
                    \E j \in DOMAIN Get(filters.file_types) :
                        Get(filters.file_types)[j]
                            = ToLower(ExtensionOr(meta.file_path, <<>>))
                /\ filters.folder_paths # None =>
                    \E j \in DOMAIN Get(filters.folder_paths) :
                        Contains(ToLower(meta.file_path),
                                 ToLower(Get(filters.folder_paths)[j]))

\* A search through the ANN index with a date range (start, month and year),
\* file types and a folder set: of the four candidates the two that pass
\* are left, /w/d/c.md from the index and the vectorless /w/d.log from the
\* keyword sweep.
AllFiltersSetWitness ==
    /\ search # None
    /\ hnsw # None
    /\ Get(search).request.filters
           = Some([date_range |-> Some([start |-> Some(FilterTimes[2]), end |-> None,
                                        month |-> Some(1), year |-> Some(1971)]),
                   file_types |-> Some(<<ExtMd, ExtLog>>),
                   folder_paths |-> Some(<<FolderDUpper>>)])
    /\ Get(search).response # None
    /\ {LastResults[i].file_path : i \in DOMAIN LastResults} = {PathC, PathLog}

\* C12: no result of a search has an extension on the configured
\* excluded-extension list, whatever filters object the request carries.
NoExcludedExtensionInResults ==
    (search # None /\ Get(search).response # None) =>
        \A i \in DOMAIN LastResults :
            \A j \in DOMAIN config.excluded_extensions :
                ToLower(config.excluded_extensions[j])
                    # ToLower(ExtensionOr(LastResults[i].file_path, <<>>))

\* C13: the limit a search is served with is the requested limit, or the
\* configured default when none is given, clamped to [1, 200].
LimitClamped ==
    search # None =>
        Get(search).limit
            = Max(1, Min(MaxLimit,
                         IF Get(search).request.limit = None
                         THEN config.max_search_results
                         ELSE Get(Get(search).request.limit)))

(***************************************************************************)
(* deduplicate_by_embedding on its own: Storage holds three records, each  *)
(* with one of two vectors or with none, and the function is given them as *)
(* results in some order.                                                  *)
(***************************************************************************)
DedupPaths == <<PathA, PathB, PathC>>
DedupVectors == {<<1, 0>>, <<0, 1>>}

\* Storage after add_file of each path of paths with the vector chosen for
\* it, on an empty Storage.
RECURSIVE Upserted(_, _, _)
Upserted(st, paths, chosen) ==
    IF paths = <<>> THEN st
    ELSE Upserted(AddFile(st, MetadataFor(Head(paths), FileName(Head(paths)), 1, 1),
                          chosen[Head(paths)]),
                  Tail(paths), chosen)

\* The rows as results, with scores that decrease along the order given.
AsResults(order) ==
    [i \in DOMAIN order |-> [metadata |-> order[i], similarity |-> One - 100 * i]]

DedupInit ==
    /\ \E chosen \in [SeqToSet(DedupPaths) -> {None} \cup {Some(v) : v \in DedupVectors}] :
           LET st == Upserted([files |-> {}, blob |-> <<>>, next_id |-> 1], DedupPaths, chosen)
           IN  /\ files = st.files
               /\ blob = st.blob
               /\ next_id = st.next_id
    /\ passed = {}
    /\ task = <<>>
    /\ calls = 0
    /\ fs = <<>>
    /\ NoIndexRuns
    /\ NoWatcher
    /\ NoScan
    /\ NoCall
    /\ NoSettings
    /\ NoParser
    /\ NoSearch

Deduplicate(results, key_order) ==
    /\ call = None
    /\ call' = Some([name |-> "deduplicate_by_embedding", results |-> results,
                     returned |-> deduplicate_by_embedding(results, blob, key_order)])
    /\ UNCHANGED <<storageVars, task, calls, passed, fs, indexVars, watchVars, searchVars,
                   scanVars, settingsVars, parserVars>>

DedupNext ==
    \E order \in Orders(files), key_order \in Orders(DedupVectors) :
        Deduplicate(AsResults(order), key_order)

SpecDedup == DedupInit /\ [][DedupNext]_vars

\* The records of results whose stored vector has the same bytes as r's.
SameVector(results, r) ==
    {i \in DOMAIN results :
        /\ results[i].metadata.embedding_length > 0
        /\ ReadSlice(blob, results[i].metadata) = ReadSlice(blob, r.metadata)}

\* C14: of every group of results whose stored vectors are byte-identical,
\* deduplicate_by_embedding returns exactly one, the one of lexicographically
\* smallest file_path; every result without a vector is returned unchanged.
DedupKeepsSmallestPath ==
    call # None =>
        LET results  == Get(call).results
            returned == Get(call).returned
        IN  \A i \in DOMAIN results :
                IF results[i].metadata.embedding_length > 0
                THEN /\ Cardinality({k \in DOMAIN returned :
                                        \E j \in SameVector(results, results[i]) :
                                            returned[k] = results[j]}) = 1
                     /\ \E k \in DOMAIN returned :
                            /\ \E j \in SameVector(results, results[i]) :
                                   returned[k] = results[j]
                            /\ \A j \in SameVector(results, results[i]) :
                                   ~StrLess(results[j].metadata.file_path,
                                            returned[k].metadata.file_path)
                ELSE Cardinality({k \in DOMAIN returned : returned[k] = results[i]}) = 1

\* Two results with one vector, the one of larger path first, and a result
\* without a vector: the smaller path and the vectorless result come back.
DedupWitness ==
    /\ call # None
    /\ Len(Get(call).results) = 3
    /\ Get(call).results[1].metadata.file_path = PathB
    /\ Get(call).results[1].metadata.embedding_length > 0
    /\ Get(call).results[2].metadata.file_path = PathA
    /\ ReadSlice(blob, Get(call).results[1].metadata)
           = ReadSlice(blob, Get(call).results[2].metadata)
    /\ Get(call).results[3].metadata.embedding_length = 0
    /\ {Get(call).returned[k].metadata.file_path : k \in DOMAIN Get(call).returned}
           = {PathA, PathC}

(***************************************************************************)
(* The ANN index on its own: entries are added and removed, and one search *)
(* is made on the index so built.                                          *)
(***************************************************************************)
MaxEntries == 3
MaxK == 4

AnnVectors == {<<1, 0>>, <<0, 1>>, <<-1, 0>>, <<1>>}
AnnQueries == {<<1, 0>>, <<0, 1>>, <<1>>}

\* The i-th path: /w/a.md, /w/aa.md, ...
AnnPath(i) == <<"/", "w", "/">> \o [j \in 1..i |-> "a"] \o <<".", "m", "d">>

\* The record of the i-th path, as table `files` would hold it.
AnnRow(i) ==
    CHOOSE r \in InsertOrReplace({}, i, MetadataFor(AnnPath(i), FileName(AnnPath(i)), 1, 1),
                                 0, Len(Serialize(<<1, 0>>))) : TRUE

AnnInit ==
    /\ files = {}
    /\ blob = <<>>
    /\ next_id = 1
    /\ passed = {}
    /\ task = <<>>
    /\ calls = 0
    /\ fs = <<>>
    /\ run = <<>>
    /\ is_indexing = <<>>
    /\ progress = None
    /\ hnsw = Some(HnswNew(2))
    /\ NoWatcher
    /\ NoScan
    /\ NoCall
    /\ NoSettings
    /\ NoParser
    /\ NoSearch

AnnAdd(i, embedding) ==
    /\ call = None
    /\ Len(Get(hnsw).embeddings) < MaxEntries
    /\ \A e \in Get(hnsw).id_to_index : e.key # i
    /\ hnsw' = Some(HnswAdd(Get(hnsw), embedding, AnnRow(i)))
    /\ UNCHANGED <<storageVars, task, calls, passed, fs, run, is_indexing, progress,
                   watchVars, searchVars, scanVars, callVars, settingsVars, parserVars>>

AnnRemove(i) ==
    /\ call = None
    /\ \E e \in Get(hnsw).id_to_index : e.key = i
    /\ hnsw' = Some(HnswRemove(Get(hnsw), AnnPath(i)))
    /\ UNCHANGED <<storageVars, task, calls, passed, fs, run, is_indexing, progress,
                   watchVars, searchVars, scanVars, callVars, settingsVars, parserVars>>

AnnSearch(query_embedding, k) ==
    /\ call = None
    /\ call' = Some([name |-> "search", query_embedding |-> query_embedding, k |-> k,
                     returned |-> HnswSearch(Get(hnsw), query_embedding, k)])
    /\ UNCHANGED <<storageVars, task, calls, passed, fs, indexVars, watchVars, searchVars,
                   scanVars, settingsVars, parserVars>>

AnnNext ==
    \/ \E i \in 1..MaxEntries, embedding \in AnnVectors : AnnAdd(i, embedding)
    \/ \E i \in 1..MaxEntries : AnnRemove(i)
    \/ \E query_embedding \in AnnQueries, k \in 0..MaxK : AnnSearch(query_embedding, k)

SpecAnn == AnnInit /\ [][AnnNext]_vars

\* The slots (1-based) of the index whose record is among the returned items.
ReturnedSlots(h, returned) ==
    {n \in 1..Len(h.metadata_list) :
        \E i \in DOMAIN returned : returned[i].metadata = h.metadata_list[n]}

\* The returned list is min(k, n) entries of the index with their similarity
\* to the query, none left out is strictly more similar than one returned,
\* and the list is in non-increasing order of similarity.
TopK(h, query_embedding, k, returned) ==
    /\ Len(returned) = Min(k, Len(h.embeddings))
    /\ Cardinality(ReturnedSlots(h, returned)) = Len(returned)
    /\ \A i \in DOMAIN returned :
           \E n \in ReturnedSlots(h, returned) :
               /\ returned[i].metadata = h.metadata_list[n]
               /\ returned[i].similarity = cosine_similarity(query_embedding, h.embeddings[n])
    /\ \A n \in (1..Len(h.embeddings)) \ ReturnedSlots(h, returned) :
           \A i \in DOMAIN returned :
               cosine_similarity(query_embedding, h.embeddings[n]) <= returned[i].similarity
    /\ \A i, j \in DOMAIN returned :
           i < j => returned[i].similarity >= returned[j].similarity

\* C15 (as stated): search(query, k) on an index of n entries returns exactly
\* min(k, n) items, the entries of highest similarity, in non-increasing
\* order of similarity.
SearchReturnsTopK ==
    call # None =>
        /\ Get(call).returned # None
        /\ TopK(Get(hnsw), Get(call).query_embedding, Get(call).k, Get(Get(call).returned))

\* C15 (amended): for a query of the index's dimension, search(query, k) on an
\* index of n entries returns exactly min(k, n) items, the entries of highest
\* similarity, in non-increasing order of similarity; a query of another
\* length is answered by an error.
SearchReturnsTopKOfDimension ==
    call # None =>
        IF Len(Get(call).query_embedding) = Get(hnsw).dimensions
        THEN /\ Get(call).returned # None
             /\ TopK(Get(hnsw), Get(call).query_embedding, Get(call).k,
                     Get(Get(call).returned))
        ELSE Get(call).returned = None

\* Three entries of similarity 0, 1 and -1 to the query, in that slot order,
\* searched with k = 2: the second and the first slot are returned.
SearchTopKWitness ==
    /\ call # None
    /\ Len(Get(hnsw).embeddings) = 3
    /\ Get(call).k = 2
    /\ Get(call).returned # None
    /\ Len(Get(Get(call).returned)) = 2
    /\ Get(Get(call).returned)[1].metadata = Get(hnsw).metadata_list[2]
    /\ Get(Get(call).returned)[1].similarity = One
    /\ Get(Get(call).returned)[2].metadata = Get(hnsw).metadata_list[1]
    /\ Get(Get(call).returned)[2].similarity = 0

\* C16: search on an index that holds no entries returns an empty list
\* without error, for every query vector of any length and every k.
EmptyIndexAnswersEmpty ==
    (call # None /\ Get(hnsw).embeddings = <<>>) => Get(call).returned = Some(<<>>)

(***************************************************************************)
(* Storage called by one caller at a time: every add_file, delete_file and *)
(* clear_all runs to completion before the next one starts.  `call` holds  *)
(* the last call and the table and blob it found.                          *)
(***************************************************************************)
MaxOps == 3

SeqStamps == {<<1, 1>>, <<2, 1>>, <<1, 2>>}

\* The FileMetadata values handed to add_file: [modified_time, file_size]
\* drawn from SeqStamps.
SeqMetadatas ==
    {MetadataFor(p, FileName(p), stamp[2], stamp[1]) : p \in StoragePaths, stamp \in SeqStamps}

Found == [files |-> files, blob |-> blob]

SeqInit ==
    /\ EmptyStorage
    /\ task = <<>>
    /\ calls = 0
    /\ fs = <<>>
    /\ NoIndexRuns
    /\ NoWatcher
    /\ NoScan
    /\ NoCall
    /\ NoSettings
    /\ NoParser
    /\ NoSearch

SeqAddFile(metadata, embedding) ==
    /\ calls < MaxOps
    /\ LET st == AddFile([files |-> files, blob |-> blob, next_id |-> next_id],
                         metadata, embedding)
       IN  /\ files' = st.files
           /\ blob' = st.blob
           /\ next_id' = st.next_id
    /\ calls' = calls + 1
    /\ call' = Some([name |-> "add_file", file_path |-> metadata.file_path,
                     metadata |-> metadata, embedding |-> embedding, found |-> Found])
    /\ UNCHANGED <<task, passed, fs, indexVars, watchVars, searchVars, scanVars, settingsVars, parserVars>>

SeqDeleteFile(path) ==
    /\ calls < MaxOps
    /\ files' = DeleteRow(files, path)
    /\ calls' = calls + 1
    /\ call' = Some([name |-> "delete_file", file_path |-> path, found |-> Found])
    /\ UNCHANGED <<blob, next_id, task, passed, fs, indexVars, watchVars, searchVars,
                   scanVars, settingsVars, parserVars>>

SeqClearAll ==
    /\ calls < MaxOps
    /\ files' = {}
    /\ blob' = <<>>
    /\ calls' = calls + 1
    /\ call' = Some([name |-> "clear_all", found |-> Found])
    /\ UNCHANGED <<next_id, task, passed, fs, indexVars, watchVars, searchVars, scanVars, settingsVars, parserVars>>

SeqNext ==
    \/ \E metadata \in SeqMetadatas, embedding \in {None} \cup {Some(v) : v \in Vectors} :
           SeqAddFile(metadata, embedding)
    \/ \E path \in StoragePaths : SeqDeleteFile(path)
    \/ SeqClearAll

SpecSequential == SeqInit /\ [][SeqNext]_vars

\* The last call is an add_file.
Upserting == call # None /\ Get(call).name = "add_file"

\* The record of the last call's path before and after the call.
RowBefore == GetFileMetadata(Get(call).found.files, Get(call).file_path)
RowAfter == GetFileMetadata(files, Get(call).file_path)

\* C17: add_file is append-only with change detection.  When the existing
\* record has the same modified_time, file_size and serialized vector length,
\* the blob is unchanged and the record keeps its offset and length;
\* otherwise one slice is appended at the former end of the blob and the
\* record points to it; without a vector nothing is appended and the record
\* gets offset = length = 0.  No byte written earlier is modified.
UpsertAppendOnly ==
    Upserting =>
        LET before    == Get(call).found.blob
            metadata  == Get(call).metadata
            embedding == Get(call).embedding
        IN  /\ RowAfter # None
            /\ Len(blob) >= Len(before)
            /\ SubSeq(blob, 1, Len(before)) = before
            /\ IF embedding = None
               THEN /\ blob = before
                    /\ Get(RowAfter).embedding_offset = 0
                    /\ Get(RowAfter).embedding_length = 0
               ELSE IF /\ RowBefore # None
                       /\ Get(RowBefore).modified_time = metadata.modified_time
                       /\ Get(RowBefore).file_size = metadata.file_size
                       /\ Get(RowBefore).embedding_length = Len(Serialize(Get(embedding)))
               THEN /\ blob = before
                    /\ Get(RowAfter).embedding_offset = Get(RowBefore).embedding_offset
                    /\ Get(RowAfter).embedding_length = Get(RowBefore).embedding_length
               ELSE /\ blob = before \o Serialize(Get(embedding))
                    /\ Get(RowAfter).embedding_offset = Len(before)
                    /\ Get(RowAfter).embedding_length = Len(Serialize(Get(embedding)))

\* An unchanged file is upserted again with a vector of the same length: the
\* blob still ends with the slice written first and the record addresses it.
UpsertReuseWitness ==
    /\ Upserting
    /\ Get(call).embedding # None
    /\ RowBefore # None
    /\ Get(RowBefore).embedding_length = Len(Serialize(Get(Get(call).embedding)))
    /\ Get(RowBefore).modified_time = Get(call).metadata.modified_time
    /\ Get(RowBefore).file_size = Get(call).metadata.file_size
    /\ blob = Get(call).found.blob
    /\ Len(blob) > 0
    /\ Get(RowAfter).embedding_offset = Get(RowBefore).embedding_offset

\* C18: after any sequence of add_file, delete_file and clear_all calls run
\* one at a time, every record with embedding_length > 0 loads a vector whose
\* serialized size is embedding_length, all such records have vectors of one
\* dimension, and records with embedding_length = 0 have no vector.
VectorsLoadWithOneDimension ==
    /\ \A r \in files :
           r.embedding_length > 0 =>
               /\ GetEmbedding(blob, r) # None
               /\ Len(Serialize(Get(GetEmbedding(blob, r)))) = r.embedding_length
    /\ \A r, q \in files :
           (r.embedding_length > 0 /\ q.embedding_length > 0
              /\ GetEmbedding(blob, r) # None /\ GetEmbedding(blob, q) # None) =>
               Len(Get(GetEmbedding(blob, r))) = Len(Get(GetEmbedding(blob, q)))

\* The part of C18 about loading alone: every record with
\* embedding_length > 0 loads a vector of that serialized size.
VectorsLoad ==
    \A r \in files :
        r.embedding_length > 0 =>
            /\ GetEmbedding(blob, r) # None
            /\ Len(Serialize(Get(GetEmbedding(blob, r)))) = r.embedding_length

\* C19: the id of a path's record stays the same across later add_file calls
\* of that path.
IdStableAcrossUpserts ==
    (Upserting /\ RowBefore # None) => Get(RowAfter).id = Get(RowBefore).id

(***************************************************************************)
(* PUT /api/settings (api/settings.rs).  AppState.config is the            *)
(* configuration loaded at startup; the handler works on a copy of it and  *)
(* writes the copy to the configuration file.                              *)
(***************************************************************************)
MaxPuts == 3

Modes == {"lightweight", "normal"}

\* AppConfig::update_model_for_mode
ModelFor(mode) == IF mode = "lightweight" THEN "all-minilm" ELSE "embeddinggemma"

\* AppConfig::set_performance_mode
SetPerformanceMode(cfg, mode) ==
    [cfg EXCEPT !.performance_mode = mode, !.embedding_model = ModelFor(mode)]

\* val.max(10).min(200)
ClampResults(val) == IF val < 10 THEN 10 ELSE IF val > 200 THEN 200 ELSE val

SettingsRequests ==
    [performance_mode : {None, Some("lightweight"), Some("normal"), Some("turbo")},
     max_search_results : {None, Some(5)}]

\* The copy of the configuration after the request's fields are applied, and
\* needs_reindex (api/settings.rs:110-249).
Updated(cfg, request) ==
    LET new_mode == request.performance_mode
        moded    == IF new_mode # None /\ Get(new_mode) # cfg.performance_mode
                    THEN SetPerformanceMode(cfg, Get(new_mode))
                    ELSE cfg
    IN  [config |-> IF request.max_search_results = None THEN moded
                    ELSE [moded EXCEPT !.max_search_results =
                                           ClampResults(Get(request.max_search_results))],
         needs_reindex |-> new_mode # None /\ Get(new_mode) # cfg.performance_mode]

SettingsInit ==
    /\ EmptyStorage
    /\ task = <<>>
    /\ calls = 0
    /\ fs = <<>>
    /\ NoIndexRuns
    /\ NoWatcher
    /\ NoScan
    /\ NoCall
    /\ NoParser
    /\ \E mode \in Modes :
           /\ config = SetPerformanceMode(DefaultConfig, mode)
           /\ saved = Some(config)
    /\ search = None
    /\ searches = 0

\* update_settings: a performance_mode that is not a mode is answered 400
\* before anything is saved (the response is None).
update_settings(request) ==
    /\ calls < MaxPuts
    /\ calls' = calls + 1
    /\ IF request.performance_mode # None /\ Get(request.performance_mode) \notin Modes
       THEN /\ saved' = saved
            /\ call' = Some([name |-> "update_settings", request |-> request,
                             found |-> saved, response |-> None])
       ELSE /\ saved' = Some(Updated(config, request).config)
            /\ call' = Some([name |-> "update_settings", request |-> request,
                             found |-> saved,
                             response |-> Some([success |-> TRUE,
                                                needs_reindex |->
                                                    Updated(config, request).needs_reindex])])
    /\ UNCHANGED <<storageVars, task, passed, fs, indexVars, watchVars, searchVars, scanVars,
                   parserVars>>

SettingsNext == \E request \in SettingsRequests : update_settings(request)

SpecSettings == SettingsInit /\ [][SettingsNext]_vars

\* C20: a PUT /api/settings that changes the persisted embedding model
\* relative to the configuration saved before it answers needs_reindex =
\* true, and one that leaves the model unchanged answers needs_reindex =
\* false.
NeedsReindexIffModelChanged ==
    (call # None /\ Get(call).response # None) =>
        (Get(Get(call).response).needs_reindex
            <=> Get(saved).embedding_model # Get(Get(call).found).embedding_model)

(***************************************************************************)
(* One index_directory run over a directory in which some files cannot be  *)
(* read, some embedding requests fail and some Storage calls fail.         *)
(***************************************************************************)
\* A failed Storage call whose file is reported as indexed all the same.
FailureReportedOk(t) ==
    /\ task[t].pc = "select"
    /\ task[t].job # None
    /\ task' = [task EXCEPT ![t] = [pc |-> "done", job |-> task[t].job, ok |-> TRUE]]
    /\ UNCHANGED <<storageVars, calls, passed, fs, indexVars, watchVars, searchVars, scanVars,
                   callVars, settingsVars, parserVars>>

\* add_file's first statement, get_file_metadata(..).await?, returns Err (the
\* database cannot be opened): add_file and index_file return the error.
AddFileFail(t) ==
    /\ task[t].pc = "select"
    /\ task[t].job # None
    /\ task' = [task EXCEPT ![t] = [pc |-> "done", job |-> task[t].job, ok |-> FALSE]]
    /\ UNCHANGED <<storageVars, calls, passed, fs, indexVars, watchVars, searchVars, scanVars,
                   callVars, settingsVars, parserVars>>

\* /w/a.txt and /w/d/c.md have text, /w/a.txt.md cannot be read, /w/d.log is
\* indexed by its metadata and /w/e.tmp is not admitted.
RunFs ==
    (PathA :> Some(RegularFile(1, 1, Some(Small)))) @@
    (PathB :> Some(RegularFile(1, 1, None))) @@
    (PathC :> Some(RegularFile(1, 1, Some(Small)))) @@
    (PathLog :> Some(RegularFile(1, 1, Some(Small)))) @@
    (PathTmp :> Some(RegularFile(1, 1, Some(Small))))

RunInit ==
    /\ EmptyStorage
    /\ task = [t \in RunIds \X (1..BATCH_SIZE) |-> Idle]
    /\ calls = 0
    /\ fs = RunFs
    /\ run = [r \in RunIds |-> NoRun]
    /\ is_indexing = [ix \in RunIds |-> FALSE]
    /\ progress = None
    /\ hnsw = None
    /\ NoWatcher
    /\ NoScan
    /\ NoCall
    /\ NoSettings
    /\ NoParser
    /\ NoSearch

RunNext ==
    \/ StartIndexing(1, Root)
    \/ EnterRun(1)
    \/ InitProgress(1)
    \/ SpawnBatch(1)
    \/ AwaitTask(1)
    \/ ClearProgress(1)
    \/ ReleaseFlag(1)
    \/ RebuildAfterIndexing(1)
    \/ \E t \in DOMAIN task :
        \/ TaskBegin(t)
        \/ \E outcome \in {None, Some(<<1, 0>>)} : TaskEmbed(t, outcome)
        \/ AddFileSelect(t)
        \/ AddFileFail(t)
        \/ AddFileOffset(t)
        \/ AddFileAppend(t)
        \/ AddFileInsert(t)

SpecRun == RunInit /\ [][RunNext]_vars

\* The runs whose loop over the batches is over: index_directory is about to
\* return, or has returned, Ok(count).
Finished == {r \in RunIds : run[r].pc \in {"clear_progress", "release", "rebuild", "returned"}}

\* C21: per-file failures never fail a directory run: the run attempts every
\* admissible file exactly once, returns Ok with the number of files whose
\* index_file returned Ok, and the records of those files are persisted.
FileFailuresSkipped ==
    \A r \in RunIds :
        r \in Finished =>
              LET results == run[r].results
                  admitted == {p \in Walk(fs, run[r].directory) : Admissible(p)}
              IN  /\ {results[i].path : i \in DOMAIN results} = admitted
                  /\ Len(results) = Cardinality(admitted)
                  /\ run[r].count = Cardinality({i \in DOMAIN results : results[i].ok})
                  /\ \A i \in DOMAIN results :
                         results[i].ok => GetFileMetadata(files, results[i].path) # None

\* A finished run in which one embedding request and one Storage call failed
\* and the two other files, one of them unreadable, were indexed.
RunWithFailuresWitness ==
    /\ run[1].pc = "returned"
    /\ run[1].count = 2
    /\ Len(run[1].results) = 4
    /\ GetFileMetadata(files, PathB) # None
    /\ GetFileMetadata(files, PathLog) # None
    /\ GetFileMetadata(files, PathA) = None
    /\ GetFileMetadata(files, PathC) = None

(***************************************************************************)
(* index_file on one file that is rewritten between calls, under several   *)
(* values of config.chunk_size: the section records of a large file.       *)
(***************************************************************************)
MaxSteps == 3

\* Texts of 3-character words: a chunk of n words is 4n - 1 bytes, n - 1
\* estimated tokens.  TenC estimates to 10 * max_context_tokens tokens under
\* the default chunk_size.
TenC == [words |-> 15030, word_len |-> 3]
LongWords == [words |-> 1000, word_len |-> 99]
SectionTexts == {Small, Large, TenC, LongWords}
SectionChunkSizes == {chunk_size, 16 * chunk_size}

SectionsInit ==
    /\ EmptyStorage
    /\ task = <<>>
    /\ calls = 0
    /\ \E text \in SectionTexts : fs = (PathBig :> Some(RegularFile(1, 1, Some(text))))
    /\ NoIndexRuns
    /\ NoWatcher
    /\ NoScan
    /\ NoCall
    /\ NoSettings
    /\ NoParser
    /\ \E size \in SectionChunkSizes : config = [DefaultConfig EXCEPT !.chunk_size = size]
    /\ search = None
    /\ searches = 0

\* The file is rewritten: new text, later modification time, another size.
SectionsRewrite(text) ==
    /\ calls < MaxSteps
    /\ calls' = calls + 1
    /\ fs' = [fs EXCEPT ![PathBig] =
                 Some(RegularFile(Get(fs[PathBig]).modified_time + 1,
                                  Get(fs[PathBig]).file_size + 1, Some(text)))]
    /\ UNCHANGED <<storageVars, task, passed, indexVars, watchVars, searchVars, scanVars,
                   callVars, settingsVars, parserVars>>

\* The estimated token total of the file's text, as index_file computes it.
TotalTokens(file, cfg) == SumTokens(ChunkTextWith(Get(file.text), cfg.chunk_size))

\* index_file(PathBig) run to completion; the embedding request numbered
\* fail_at fails (none when fail_at = 0).
SectionsIndexFile(fail_at) ==
    /\ calls < MaxSteps
    /\ calls' = calls + 1
    /\ LET file == Get(fs[PathBig])
           n    == EmbeddingCountWith(PathBig, file, config.chunk_size,
                                      config.max_context_tokens)
           done == IndexFileOf([files |-> files, blob |-> blob, next_id |-> next_id],
                               PathBig, file,
                               [k \in 1..n |-> IF k = fail_at THEN None ELSE Some(<<1, 0>>)],
                               n)
       IN  /\ fail_at <= n
           /\ files' = done.st.files
           /\ blob' = done.st.blob
           /\ next_id' = done.st.next_id
           /\ call' = Some([name |-> "index_file", file_path |-> PathBig, ok |-> done.ok,
                            total |-> TotalTokens(file, config), first |-> files = {}])
    /\ UNCHANGED <<task, passed, fs, indexVars, watchVars, searchVars, scanVars, settingsVars, parserVars>>

MaxSections == 5

SectionsNext ==
    \/ \E text \in SectionTexts : SectionsRewrite(text)
    \/ \E fail_at \in 0..MaxSections : SectionsIndexFile(fail_at)

SpecSections == SectionsInit /\ [][SectionsNext]_vars

\* ceil(log2(total / C + 1)): the least n with 2^n >= total / C + 1.
CeilLog2Ratio(total, C) == CHOOSE n \in 0..64 :
    /\ (2 ^ n) * C >= total + C
    /\ \A m \in 0..(n - 1) : (2 ^ m) * C < total + C

\* C22: a file whose estimated token total exceeds 4 * C is persisted by
\* index_file as exactly N = ceil(log2(Total / C + 1)) records: the primary
\* under the real path and P#sectionK for K in 2..N, for every chunk_size.
LargeFileHasLogSections ==
    (/\ call # None
     /\ Get(call).ok
     /\ Get(call).first
     /\ Get(call).total > 4 * config.max_context_tokens) =>
        {r.file_path : r \in files} =
            {SectionPath(PathBig, k) :
                k \in 1..CeilLog2Ratio(Get(call).total, config.max_context_tokens)}

\* The section records of PathBig.
SectionRows == {r \in files : StartsWith(r.file_path, PathBig \o SectionTag)}

\* C23: after an index_file call for P has returned, with Ok or with an
\* error part-way, every record P#sectionK has the modified_time and the
\* file_size of the primary record P.
SectionsShareStamp ==
    call # None =>
        \A r \in SectionRows :
            /\ GetFileMetadata(files, PathBig) # None
            /\ r.modified_time = Get(GetFileMetadata(files, PathBig)).modified_time
            /\ r.file_size = Get(GetFileMetadata(files, PathBig)).file_size

(***************************************************************************)
(* QueryParser (query_parser.rs): a query is parsed by pattern extraction  *)
(* and, when that finds no filter and the query is complex enough, by an   *)
(* LLM whose JSON answer is converted into a ParsedQuery.                  *)
(*                                                                         *)
(* Timestamps are seconds since the epoch; the local time zone is UTC.     *)
(***************************************************************************)
\* The month names and relative-date words of has_explicit_date_tokens.
date_tokens == <<
    <<"j", "a", "n", "u", "a", "r", "y">>,
    <<"j", "a", "n">>,
    <<"f", "e", "b", "r", "u", "a", "r", "y">>,
    <<"f", "e", "b">>,
    <<"m", "a", "r", "c", "h">>,
    <<"m", "a", "r">>,
    <<"a", "p", "r", "i", "l">>,
    <<"a", "p", "r">>,
    <<"m", "a", "y">>,
    <<"j", "u", "n", "e">>,
    <<"j", "u", "n">>,
    <<"j", "u", "l", "y">>,
    <<"j", "u", "l">>,
    <<"a", "u", "g", "u", "s", "t">>,
    <<"a", "u", "g">>,
    <<"s", "e", "p", "t", "e", "m", "b", "e", "r">>,
    <<"s", "e", "p", "t">>,
    <<"s", "e", "p">>,
    <<"o", "c", "t", "o", "b", "e", "r">>,
    <<"o", "c", "t">>,
    <<"n", "o", "v", "e", "m", "b", "e", "r">>,
    <<"n", "o", "v">>,
    <<"d", "e", "c", "e", "m", "b", "e", "r">>,
    <<"d", "e", "c">>,
    <<"y", "e", "s", "t", "e", "r", "d", "a", "y">>,
    <<"t", "o", "d", "a", "y">>,
    <<"t", "o", "m", "o", "r", "r", "o", "w">>,
    <<"l", "a", "s", "t", " ", "w", "e", "e", "k">>,
    <<"t", "h", "i", "s", " ", "w", "e", "e", "k">>,
    <<"n", "e", "x", "t", " ", "w", "e", "e", "k">>,
    <<"l", "a", "s", "t", " ", "m", "o", "n", "t", "h">>,
    <<"t", "h", "i", "s", " ", "m", "o", "n", "t", "h">>,
    <<"n", "e", "x", "t", " ", "m", "o", "n", "t", "h">>,
    <<"l", "a", "s", "t", " ", "y", "e", "a", "r">>,
    <<"t", "h", "i", "s", " ", "y", "e", "a", "r">>,
    <<"n", "e", "x", "t", " ", "y", "e", "a", "r">>,
    <<"b", "e", "t", "w", "e", "e", "n">>,
    <<"b", "e", "f", "o", "r", "e">>,
    <<"a", "f", "t", "e", "r">>,
    <<"s", "i", "n", "c", "e">>,
    <<"f", "r", "o", "m">>,
    <<"d", "u", "r", "i", "n", "g">>,
    <<"r", "e", "c", "e", "n", "t">>,
    <<"r", "e", "c", "e", "n", "t", "l", "y">>,
    <<"a", "g", "o">> >>

IsDigit(c) == c \in SeqToSet(DigitChars)

\* str::trim_matches(|c| !c.is_ascii_digit())
RECURSIVE TrimNonDigits(_)
TrimNonDigits(w) ==
    IF w = <<>> THEN w
    ELSE IF ~IsDigit(Head(w)) THEN TrimNonDigits(Tail(w))
    ELSE IF ~IsDigit(w[Len(w)]) THEN TrimNonDigits(SubSeq(w, 1, Len(w) - 1))
    ELSE w

DigitValue(c) == (CHOOSE k \in 1..Len(DigitChars) : DigitChars[k] = c) - 1

\* str::parse::<i32> of an unsigned numeral: None (an Err) for the empty
\* string and for a string holding a character that is no digit.
RECURSIVE ParseInt(_)
ParseInt(w) ==
    IF w = <<>> \/ \E i \in 1..Len(w) : ~IsDigit(w[i]) THEN None
    ELSE IF Len(w) = 1 THEN Some(DigitValue(w[1]))
    ELSE Some(10 * Get(ParseInt(SubSeq(w, 1, Len(w) - 1))) + DigitValue(w[Len(w)]))

\* QueryParser::has_explicit_date_tokens: the lowercased query contains one
\* of the date tokens as a substring, or one of its whitespace-separated
\* words has length 4 and reads as a year from 1900 to 2100.
has_explicit_date_tokens(query) ==
    LET q == ToLower(query)
    IN  \/ \E t \in DOMAIN date_tokens : Contains(q, date_tokens[t])
        \/ \E w \in SeqToSet(Split(q, Whitespace)) :
               /\ Len(w) = 4
               /\ ParseInt(TrimNonDigits(w)) # None
               /\ Get(ParseInt(TrimNonDigits(w))) \in 1900..2100

\* chrono::Local::now(), as far as the parser reads it.
Now(timestamp) ==
    [timestamp |-> timestamp, year |-> CivilDate(timestamp).year,
     month |-> CivilDate(timestamp).month]

\* QueryParser::is_future_date
is_future_date(month, year, now) ==
    IF year # None
    THEN \/ Get(year) > now.year
         \/ Get(year) = now.year /\ month # None /\ Get(month) > now.month
    ELSE month # None /\ Get(month) > now.month

\* QueryParser::query_mentions_month
query_mentions_month(query, month_name) ==
    \/ Contains(ToLower(query), ToLower(month_name))
    \/ Contains(ToLower(query), <<" ">> \o ToLower(month_name))
    \/ Contains(ToLower(query), ToLower(month_name) \o <<" ">>)

\* The (full name, abbreviation) pairs of parse_with_llm.
month_names == <<
    <<<<"j", "a", "n", "u", "a", "r", "y">>, <<"j", "a", "n">>>>,
    <<<<"f", "e", "b", "r", "u", "a", "r", "y">>, <<"f", "e", "b">>>>,
    <<<<"m", "a", "r", "c", "h">>, <<"m", "a", "r">>>>,
    <<<<"a", "p", "r", "i", "l">>, <<"a", "p", "r">>>>,
    <<<<"m", "a", "y">>, <<>>>>,
    <<<<"j", "u", "n", "e">>, <<"j", "u", "n">>>>,
    <<<<"j", "u", "l", "y">>, <<"j", "u", "l">>>>,
    <<<<"a", "u", "g", "u", "s", "t">>, <<"a", "u", "g">>>>,
    <<<<"s", "e", "p", "t", "e", "m", "b", "e", "r">>, <<"s", "e", "p", "t">>>>,
    <<<<"o", "c", "t", "o", "b", "e", "r">>, <<"o", "c", "t">>>>,
    <<<<"n", "o", "v", "e", "m", "b", "e", "r">>, <<"n", "o", "v">>>>,
    <<<<"d", "e", "c", "e", "m", "b", "e", "r">>, <<"d", "e", "c">>>> >>

\* NaiveDate::from_ymd_opt(y, m, d) as a day number since the epoch.
DaysFromCivil(y, m, d) ==
    LET yy  == IF m <= 2 THEN y - 1 ELSE y
        era == yy \div 400
        yoe == yy - era * 400
        mp  == IF m > 2 THEN m - 3 ELSE m + 9
        doy == ((153 * mp + 2) \div 5) + d - 1
        doe == yoe * 365 + (yoe \div 4) - (yoe \div 100) + doy
    IN  era * 146097 + doe - 719468

\* The first second of a month and the last second of a month.
MonthStart(year, month) == DaysFromCivil(year, month, 1) * 86400
MonthEnd(year, month) ==
    IF month = 12 THEN MonthStart(year + 1, 1) - 1 ELSE MonthStart(year, month + 1) - 1

\* parse_with_llm: the month of the answer is named in the query.
MonthMentioned(query, month) ==
    /\ month \in 1..12
    /\ \/ query_mentions_month(query, month_names[month][1])
       \/ /\ month_names[month][2] # <<>>
          /\ query_mentions_month(query, month_names[month][2])

\* parse_with_llm: the month or the year of a date in the future is written
\* in the query.
ExplicitlyMentioned(query, date_filter) ==
    \/ date_filter.month # None /\ MonthMentioned(query, Get(date_filter.month))
    \/ date_filter.year # None /\ Contains(query, Decimal(Get(date_filter.year)))

\* parse_with_llm (query_parser.rs:415-583): the DateRange made of the
\* answer's date_filter, None when none is set.
LlmDateRange(query, date_filter, now) ==
    LET is_future == is_future_date(date_filter.month, date_filter.year, now)
        year      == IF date_filter.year # None THEN Get(date_filter.year) ELSE now.year
        range     == [start |-> None, end |-> None,
                      month |-> date_filter.month, year |-> Some(year)]
    IN  IF date_filter.month = None /\ date_filter.year = None THEN None
        ELSE IF is_future /\ ~ExplicitlyMentioned(query, date_filter) THEN None
        ELSE IF date_filter.month # None
        THEN IF Get(date_filter.month) \notin 1..12 THEN None
             ELSE IF MonthStart(year, Get(date_filter.month)) <= now.timestamp \/ is_future
             THEN Some([range EXCEPT
                     !.start = Some(MonthStart(year, Get(date_filter.month))),
                     !.end = Some(Min(MonthEnd(year, Get(date_filter.month)),
                                      now.timestamp))])
             ELSE None
        ELSE IF \/ MonthStart(year, 1) <= now.timestamp
                \/ year > now.year /\ Contains(query, Decimal(year))
        THEN Some([range EXCEPT
                !.start = Some(MonthStart(year, 1)),
                !.end = Some(Min(MonthEnd(year, 12), now.timestamp))])
        ELSE None

\* Option<Vec<String>> of the answer, kept when it is not empty.
NonEmptyList(list) == IF list # None /\ Get(list) # <<>> THEN list ELSE None

\* parse_with_llm (query_parser.rs:400-603): the ParsedQuery made of the
\* deserialized answer.
FromLlmAnswer(query, parsed, now) ==
    LET date_filter == IF parsed.date_filter # None /\ ~has_explicit_date_tokens(query)
                       THEN None ELSE parsed.date_filter
    IN  [query   |-> Trim(parsed.search_query),
         filters |-> [date_range   |-> IF date_filter = None THEN None
                                       ELSE LlmDateRange(query, Get(date_filter), now),
                      file_types   |-> NonEmptyList(parsed.file_types),
                      folder_paths |-> NonEmptyList(parsed.folder_paths)]]

\* pattern stands in s after its first i characters.
MatchesAt(s, pattern, i) ==
    /\ i + Len(pattern) <= Len(s)
    /\ \A j \in 1..Len(pattern) : s[i + j] = pattern[j]

\* Removal of the first occurrence of pattern: str::replacen(pattern, "", 1).
ReplaceFirst(s, pattern) ==
    IF ~Contains(s, pattern) THEN s
    ELSE LET at == CHOOSE i \in 0..(Len(s) - Len(pattern)) :
                       /\ MatchesAt(s, pattern, i)
                       /\ \A j \in 0..(i - 1) : ~MatchesAt(s, pattern, j)
         IN  SubSeq(s, 1, at) \o SubSeq(s, at + Len(pattern) + 1, Len(s))

\* Removal of every occurrence of pattern: str::replace(pattern, "").
RECURSIVE ReplaceAll(_, _)
ReplaceAll(s, pattern) ==
    IF ~Contains(s, pattern) THEN s ELSE ReplaceAll(ReplaceFirst(s, pattern), pattern)

\* The regex class \w and the assertion \b before position p + 1 of s.
IsWordChar(c) == c \in SeqToSet(LowerChars) \cup SeqToSet(UpperChars) \cup SeqToSet(DigitChars) \cup {"_"}
WordBoundary(s, p) ==
    (p >= 1 /\ IsWordChar(s[p])) # (p < Len(s) /\ IsWordChar(s[p + 1]))

\* The offsets at which the regex \b<pattern>\b matches s.
WordMatches(s, pattern) ==
    {i \in 0..(Len(s) - Len(pattern)) :
        /\ MatchesAt(s, pattern, i)
        /\ WordBoundary(s, i)
        /\ WordBoundary(s, i + Len(pattern))}

\* Regex::is_match of \b<pattern>\b
IsWordMatch(s, pattern) == WordMatches(s, pattern) # {}

\* Regex::replace(s, "") of \b<pattern>\b: the leftmost match is removed.
ReplaceWord(s, pattern) ==
    IF ~IsWordMatch(s, pattern) THEN s
    ELSE LET at == CHOOSE i \in WordMatches(s, pattern) :
                       \A j \in WordMatches(s, pattern) : i <= j
         IN  SubSeq(s, 1, at) \o SubSeq(s, at + Len(pattern) + 1, Len(s))

\* extract_date_filters: the (month name, month number) pairs, in the order
\* in which they are tried.
month_patterns == <<
    <<<<"j", "a", "n", "u", "a", "r", "y">>, 1>>,
    <<<<"j", "a", "n">>, 1>>,
    <<<<"f", "e", "b", "r", "u", "a", "r", "y">>, 2>>,
    <<<<"f", "e", "b">>, 2>>,
    <<<<"m", "a", "r", "c", "h">>, 3>>,
    <<<<"m", "a", "r">>, 3>>,
    <<<<"a", "p", "r", "i", "l">>, 4>>,
    <<<<"a", "p", "r">>, 4>>,
    <<<<"m", "a", "y">>, 5>>,
    <<<<"j", "u", "n", "e">>, 6>>,
    <<<<"j", "u", "n">>, 6>>,
    <<<<"j", "u", "l", "y">>, 7>>,
    <<<<"j", "u", "l">>, 7>>,
    <<<<"a", "u", "g", "u", "s", "t">>, 8>>,
    <<<<"a", "u", "g">>, 8>>,
    <<<<"s", "e", "p", "t", "e", "m", "b", "e", "r">>, 9>>,
    <<<<"s", "e", "p", "t">>, 9>>,
    <<<<"s", "e", "p">>, 9>>,
    <<<<"o", "c", "t", "o", "b", "e", "r">>, 10>>,
    <<<<"o", "c", "t">>, 10>>,
    <<<<"n", "o", "v", "e", "m", "b", "e", "r">>, 11>>,
    <<<<"n", "o", "v">>, 11>>,
    <<<<"d", "e", "c", "e", "m", "b", "e", "r">>, 12>>,
    <<<<"d", "e", "c">>, 12>> >>

\* The patterns tried for one month name: "from X", "in X", "during X", "X".
MonthCues(month_name) ==
    << <<"f", "r", "o", "m", " ">> \o month_name, <<"i", "n", " ">> \o month_name,
       <<"d", "u", "r", "i", "n", "g", " ">> \o month_name, month_name >>

\* The first element of seq that satisfies Test, seq being known to hold one.
FirstCue(query_lower, cues) ==
    cues[CHOOSE i \in 1..Len(cues) :
             /\ Contains(query_lower, cues[i])
             /\ \A j \in 1..(i - 1) : ~Contains(query_lower, cues[j])]

\* extract_date_filters (query_parser.rs:667-777), the loop over the month
\* names from the k-th on: st holds date_range and cleaned_query. A query of
\* the model holds no digit, so that no year follows a month name and the
\* year of the range is the current one.
RECURSIVE ExtractMonths(_, _, _, _, _)
ExtractMonths(st, query, query_lower, now, k) ==
    IF k > Len(month_patterns) THEN st
    ELSE LET month_name == month_patterns[k][1]
             month_num  == month_patterns[k][2]
             is_future  == is_future_date(Some(month_num), Some(now.year), now)
             dated      == IF ~is_future \/ query_mentions_month(query, month_name)
                           THEN [st.date_range EXCEPT
                                   !.month = Some(month_num),
                                   !.year = Some(now.year),
                                   !.start = IF MonthStart(now.year, month_num) <= now.timestamp
                                                \/ is_future
                                             THEN Some(MonthStart(now.year, month_num))
                                             ELSE @,
                                   !.end = IF MonthStart(now.year, month_num) <= now.timestamp
                                              \/ is_future
                                           THEN Some(Min(MonthEnd(now.year, month_num),
                                                         now.timestamp))
                                           ELSE @]
                           ELSE st.date_range
         IN  IF \E c \in 1..4 : Contains(query_lower, MonthCues(month_name)[c])
             THEN ExtractMonths(
                      [date_range    |-> dated,
                       cleaned_query |-> Trim(ReplaceFirst(st.cleaned_query,
                                              FirstCue(query_lower, MonthCues(month_name))))],
                      query, query_lower, now, k + 1)
             ELSE ExtractMonths(st, query, query_lower, now, k + 1)

Today == <<"t", "o", "d", "a", "y">>
Yesterday == <<"y", "e", "s", "t", "e", "r", "d", "a", "y">>
ThisWeek == <<"t", "h", "i", "s", " ", "w", "e", "e", "k">>
LastWeek == <<"l", "a", "s", "t", " ", "w", "e", "e", "k">>
ThisMonth == <<"t", "h", "i", "s", " ", "m", "o", "n", "t", "h">>
LastMonth == <<"l", "a", "s", "t", " ", "m", "o", "n", "t", "h">>
LastYear == <<"l", "a", "s", "t", " ", "y", "e", "a", "r">>

\* The first second of the day of a timestamp, and the number of days from
\* the Monday before it (1970-01-01 was a Thursday).
DayStart(timestamp) == (timestamp \div 86400) * 86400
DaysFromMonday(timestamp) == ((timestamp \div 86400) + 3) % 7

\* extract_date_filters (query_parser.rs:814-912): the relative dates.
ExtractRelative(st, query_lower, now) ==
    LET ts       == now.timestamp
        monday   == DayStart(ts) - DaysFromMonday(ts) * 86400
        last_month      == IF now.month = 1 THEN 12 ELSE now.month - 1
        last_month_year == IF now.month = 1 THEN now.year - 1 ELSE now.year
        With(word, start, end, month, year) ==
            [date_range    |-> [start |-> Some(start), end |-> Some(end),
                                month |-> IF month = None THEN st.date_range.month ELSE month,
                                year  |-> IF year = None THEN st.date_range.year ELSE year],
             cleaned_query |-> Trim(ReplaceAll(st.cleaned_query, word))]
    IN  IF Contains(query_lower, Today)
        THEN With(Today, DayStart(ts), ts, None, None)
        ELSE IF Contains(query_lower, Yesterday)
        THEN With(Yesterday, DayStart(ts) - 86400, DayStart(ts) - 1, None, None)
        ELSE IF Contains(query_lower, ThisWeek)
        THEN With(ThisWeek, monday, ts, None, None)
        ELSE IF Contains(query_lower, LastWeek)
        THEN With(LastWeek, monday - 7 * 86400, monday - 1, None, None)
        ELSE IF Contains(query_lower, ThisMonth)
        THEN With(ThisMonth, MonthStart(now.year, now.month), ts,
                  Some(now.month), Some(now.year))
        ELSE IF Contains(query_lower, LastMonth)
        THEN With(LastMonth, MonthStart(last_month_year, last_month),
                  MonthEnd(last_month_year, last_month),
                  Some(last_month), Some(last_month_year))
        ELSE IF Contains(query_lower, LastYear)
        THEN With(LastYear, MonthStart(now.year - 1, 1), MonthEnd(now.year - 1, 12),
                  None, Some(now.year - 1))
        ELSE st

\* QueryParser::extract_date_filters for a query without digits (the date
\* range, the year and the `last N days` patterns all need one): None, or
\* the date range and the query without the date words.
extract_date_filters(query, now) ==
    LET none == [start |-> None, end |-> None, month |-> None, year |-> None]
        st   == ExtractRelative(
                    ExtractMonths([date_range |-> none, cleaned_query |-> query],
                                  query, ToLower(query), now, 1),
                    ToLower(query), now)
    IN  IF st.date_range = none THEN None ELSE Some(st)

\* extract_file_types: the keywords of each file type, in the order in which
\* they are tried, and the extensions the type stands for.
type_patterns == <<
    [patterns |-> <<<<"p", "d", "f">>, <<"p", "d", "f", " ", "f", "i", "l", "e", "s">>, <<"p", "d", "f", " ", "d", "o", "c", "u", "m", "e", "n", "t", "s">>, <<"p", "d", "f", "s">>, <<".", "p", "d", "f">>>>,
     all_extensions |-> <<<<"p", "d", "f">>>>],
    [patterns |-> <<<<"w", "o", "r", "d">>, <<"w", "o", "r", "d", " ", "d", "o", "c", "u", "m", "e", "n", "t", "s">>, <<"d", "o", "c", "x">>, <<"d", "o", "c", " ", "f", "i", "l", "e", "s">>, <<"d", "o", "c", "u", "m", "e", "n", "t", "s">>, <<"m", "i", "c", "r", "o", "s", "o", "f", "t", " ", "w", "o", "r", "d">>, <<"m", "s", " ", "w", "o", "r", "d">>, <<".", "d", "o", "c", "x">>, <<".", "d", "o", "c">>>>,
     all_extensions |-> <<<<"d", "o", "c", "x">>, <<"d", "o", "c">>>>],
    [patterns |-> <<<<"e", "x", "c", "e", "l">>, <<"s", "p", "r", "e", "a", "d", "s", "h", "e", "e", "t">>, <<"s", "p", "r", "e", "a", "d", "s", "h", "e", "e", "t", "s">>, <<"x", "l", "s", "x">>, <<"x", "l", "s", " ", "f", "i", "l", "e", "s">>, <<"m", "i", "c", "r", "o", "s", "o", "f", "t", " ", "e", "x", "c", "e", "l">>, <<"m", "s", " ", "e", "x", "c", "e", "l">>, <<".", "x", "l", "s", "x">>, <<".", "x", "l", "s">>>>,
     all_extensions |-> <<<<"x", "l", "s", "x">>, <<"x", "l", "s">>>>],
    [patterns |-> <<<<"t", "e", "x", "t", " ", "f", "i", "l", "e", "s">>, <<"t", "e", "x", "t">>, <<"t", "x", "t", " ", "f", "i", "l", "e", "s">>, <<"p", "l", "a", "i", "n", " ", "t", "e", "x", "t">>, <<".", "t", "x", "t">>>>,
     all_extensions |-> <<<<"t", "x", "t">>>>],
    [patterns |-> <<<<"i", "m", "a", "g", "e", "s">>, <<"i", "m", "a", "g", "e">>, <<"p", "i", "c", "t", "u", "r", "e", "s">>, <<"p", "h", "o", "t", "o", "s">>, <<"p", "i", "c", "t", "u", "r", "e">>, <<"j", "p", "g">>, <<"j", "p", "e", "g">>, <<"p", "n", "g">>, <<"g", "i", "f">>, <<"b", "m", "p">>, <<"w", "e", "b", "p">>, <<".", "j", "p", "g">>, <<".", "j", "p", "e", "g">>, <<".", "p", "n", "g">>, <<".", "g", "i", "f">>, <<".", "b", "m", "p">>, <<".", "w", "e", "b", "p">>>>,
     all_extensions |-> <<<<"j", "p", "g">>, <<"j", "p", "e", "g">>, <<"p", "n", "g">>, <<"g", "i", "f">>, <<"b", "m", "p">>, <<"w", "e", "b", "p">>>>],
    [patterns |-> <<<<"v", "i", "d", "e", "o", "s">>, <<"v", "i", "d", "e", "o">>, <<"m", "p", "4">>, <<"m", "o", "v", "i", "e">>, <<"m", "o", "v", "i", "e", "s">>, <<"a", "v", "i">>, <<"m", "o", "v">>, <<".", "m", "p", "4">>, <<".", "a", "v", "i">>, <<".", "m", "o", "v">>>>,
     all_extensions |-> <<<<"m", "p", "4">>, <<"a", "v", "i">>, <<"m", "o", "v">>>>],
    [patterns |-> <<<<"z", "i", "p">>, <<"z", "i", "p", " ", "f", "i", "l", "e", "s">>, <<"a", "r", "c", "h", "i", "v", "e", "s">>, <<"c", "o", "m", "p", "r", "e", "s", "s", "e", "d">>, <<".", "z", "i", "p">>, <<".", "r", "a", "r">>, <<".", "7", "z">>>>,
     all_extensions |-> <<<<"z", "i", "p">>, <<"r", "a", "r">>, <<"7", "z">>>>],
    [patterns |-> <<<<"a", "u", "d", "i", "o">>, <<"m", "u", "s", "i", "c">>, <<"s", "o", "n", "g", "s">>, <<"m", "p", "3">>, <<"s", "o", "u", "n", "d">>, <<".", "m", "p", "3">>, <<".", "w", "a", "v">>, <<".", "f", "l", "a", "c">>>>,
     all_extensions |-> <<<<"m", "p", "3">>, <<"w", "a", "v">>, <<"f", "l", "a", "c">>>>],
    [patterns |-> <<<<"p", "o", "w", "e", "r", "p", "o", "i", "n", "t">>, <<"p", "r", "e", "s", "e", "n", "t", "a", "t", "i", "o", "n">>, <<"p", "p", "t">>, <<"p", "p", "t", "x">>, <<".", "p", "p", "t", "x">>, <<".", "p", "p", "t">>>>,
     all_extensions |-> <<<<"p", "p", "t", "x">>, <<"p", "p", "t">>>>],
    [patterns |-> <<<<"c", "s", "v">>, <<"c", "s", "v", " ", "f", "i", "l", "e", "s">>, <<"c", "o", "m", "m", "a", " ", "s", "e", "p", "a", "r", "a", "t", "e", "d">>, <<".", "c", "s", "v">>>>,
     all_extensions |-> <<<<"c", "s", "v">>>>] >>

\* The first pattern of patterns that matches query_lower as a word, None
\* when none does.
FirstWordMatch(query_lower, patterns) ==
    IF \A i \in 1..Len(patterns) : ~IsWordMatch(query_lower, patterns[i]) THEN None
    ELSE Some(patterns[CHOOSE i \in 1..Len(patterns) :
                  /\ IsWordMatch(query_lower, patterns[i])
                  /\ \A j \in 1..(i - 1) : ~IsWordMatch(query_lower, patterns[j])])

\* Vec::push of the elements of more that list does not hold yet.
RECURSIVE PushNew(_, _)
PushNew(list, more) ==
    IF more = <<>> THEN list
    ELSE PushNew(IF Head(more) \in SeqToSet(list) THEN list ELSE Append(list, Head(more)),
                 Tail(more))

\* extract_file_types (query_parser.rs:976-1005), the loop over the file
\* types from the k-th on.
RECURSIVE ExtractTypes(_, _, _)
ExtractTypes(st, query_lower, k) ==
    IF k > Len(type_patterns) THEN st
    ELSE LET hit == FirstWordMatch(query_lower, type_patterns[k].patterns)
         IN  IF hit = None THEN ExtractTypes(st, query_lower, k + 1)
             ELSE ExtractTypes(
                      [found         |-> PushNew(st.found, type_patterns[k].all_extensions),
                       cleaned_query |-> Trim(ReplaceWord(st.cleaned_query, Get(hit)))],
                      query_lower, k + 1)

\* QueryParser::extract_file_types for a query without '.': None, or the
\* extensions found and the query without the matched keywords.
extract_file_types(query) ==
    LET st == ExtractTypes([found |-> <<>>, cleaned_query |-> query], ToLower(query), 1)
    IN  IF st.found = <<>> THEN None ELSE Some(st)

\* extract_folder_paths: the folders of the taxonomy and their cues.
folder_patterns == <<
    [folder_name |-> <<"D", "o", "w", "n", "l", "o", "a", "d", "s">>,
     patterns |-> <<<<"d", "o", "w", "n", "l", "o", "a", "d", "s">>, <<"d", "o", "w", "n", "l", "o", "a", "d">>, <<"f", "r", "o", "m", " ", "d", "o", "w", "n", "l", "o", "a", "d", "s">>, <<"i", "n", " ", "d", "o", "w", "n", "l", "o", "a", "d", "s">>, <<"d", "o", "w", "n", "l", "o", "a", "d", "s", " ", "f", "o", "l", "d", "e", "r">>, <<"d", "o", "w", "n", "l", "o", "a", "d", " ", "f", "o", "l", "d", "e", "r">>>>],
    [folder_name |-> <<"D", "e", "s", "k", "t", "o", "p">>,
     patterns |-> <<<<"d", "e", "s", "k", "t", "o", "p">>, <<"f", "r", "o", "m", " ", "d", "e", "s", "k", "t", "o", "p">>, <<"i", "n", " ", "d", "e", "s", "k", "t", "o", "p">>, <<"d", "e", "s", "k", "t", "o", "p", " ", "f", "o", "l", "d", "e", "r">>, <<"o", "n", " ", "d", "e", "s", "k", "t", "o", "p">>>>],
    [folder_name |-> <<"D", "o", "c", "u", "m", "e", "n", "t", "s">>,
     patterns |-> <<<<"d", "o", "c", "u", "m", "e", "n", "t", "s">>, <<"d", "o", "c", "u", "m", "e", "n", "t">>, <<"f", "r", "o", "m", " ", "d", "o", "c", "u", "m", "e", "n", "t", "s">>, <<"i", "n", " ", "d", "o", "c", "u", "m", "e", "n", "t", "s">>, <<"d", "o", "c", "u", "m", "e", "n", "t", "s", " ", "f", "o", "l", "d", "e", "r">>, <<"d", "o", "c", "u", "m", "e", "n", "t", " ", "f", "o", "l", "d", "e", "r">>, <<"m", "y", " ", "d", "o", "c", "u", "m", "e", "n", "t", "s">>>>],
    [folder_name |-> <<"P", "i", "c", "t", "u", "r", "e", "s">>,
     patterns |-> <<<<"p", "i", "c", "t", "u", "r", "e", "s">>, <<"p", "i", "c", "t", "u", "r", "e">>, <<"p", "h", "o", "t", "o", "s">>, <<"i", "m", "a", "g", "e", "s">>, <<"f", "r", "o", "m", " ", "p", "i", "c", "t", "u", "r", "e", "s">>, <<"i", "n", " ", "p", "i", "c", "t", "u", "r", "e", "s">>, <<"p", "i", "c", "t", "u", "r", "e", "s", " ", "f", "o", "l", "d", "e", "r">>>>],
    [folder_name |-> <<"M", "u", "s", "i", "c">>,
     patterns |-> <<<<"m", "u", "s", "i", "c">>, <<"s", "o", "n", "g", "s">>, <<"f", "r", "o", "m", " ", "m", "u", "s", "i", "c">>, <<"i", "n", " ", "m", "u", "s", "i", "c">>, <<"m", "u", "s", "i", "c", " ", "f", "o", "l", "d", "e", "r">>>>],
    [folder_name |-> <<"V", "i", "d", "e", "o", "s">>,
     patterns |-> <<<<"v", "i", "d", "e", "o", "s">>, <<"v", "i", "d", "e", "o">>, <<"f", "r", "o", "m", " ", "v", "i", "d", "e", "o", "s">>, <<"i", "n", " ", "v", "i", "d", "e", "o", "s">>, <<"v", "i", "d", "e", "o", "s", " ", "f", "o", "l", "d", "e", "r">>>>] >>

\* extract_folder_paths (query_parser.rs:1042-1068), the loop over the
\* folders from the k-th on.
RECURSIVE ExtractFolders(_, _, _)
ExtractFolders(st, query_lower, k) ==
    IF k > Len(folder_patterns) THEN st
    ELSE LET hit == FirstWordMatch(query_lower, folder_patterns[k].patterns)
         IN  IF hit = None THEN ExtractFolders(st, query_lower, k + 1)
             ELSE ExtractFolders(
                      [found         |-> PushNew(st.found, <<folder_patterns[k].folder_name>>),
                       cleaned_query |-> Trim(ReplaceWord(st.cleaned_query, Get(hit)))],
                      query_lower, k + 1)

\* QueryParser::extract_folder_paths for a query without a path literal (no
\* '/' and no '\'): None, or the folders found and the query without their
\* cues.
extract_folder_paths(query) ==
    LET st == ExtractFolders([found |-> <<>>, cleaned_query |-> query], ToLower(query), 1)
    IN  IF st.found = <<>> THEN None ELSE Some(st)

\* The element of a set of one element.
TheOne(S) == CHOOSE x \in S : TRUE

\* What an extraction leaves of the query it was given.
Rest(found, query) == IF found = None THEN query ELSE Get(found).cleaned_query

\* QueryParser::parse_pattern_only, and the first part of QueryParser::parse
\* (query_parser.rs:31-56): the three extractions, each on what the one
\* before it left of the query.  The result of each extraction is bound as
\* the element of a one-element set, so that it is computed once.
parse_pattern_only(query, now) ==
    LET Result(dates, types, folders, after_f) ==
            [query   |-> Trim(after_f),
             filters |-> [date_range   |-> IF dates = None THEN None
                                           ELSE Some(Get(dates).date_range),
                          file_types   |-> IF types = None THEN None
                                           ELSE Some(Get(types).found),
                          folder_paths |-> IF folders = None THEN None
                                           ELSE Some(Get(folders).found)]]
        WithFolders(dates, types, after_t) ==
            TheOne({Result(dates, types, folders, Rest(folders, after_t)) :
                       folders \in {extract_folder_paths(after_t)}})
        WithTypes(dates, after_d) ==
            TheOne({WithFolders(dates, types, Rest(types, after_d)) :
                       types \in {extract_file_types(after_d)}})
    IN  TheOne({WithTypes(dates, Rest(dates, query)) :
                   dates \in {extract_date_filters(query, now)}})

\* calculate_query_complexity: the indicators and their scores, in hundredths.
filter_indicators == <<
    <<<<"f", "r", "o", "m">>, 5>>,
    <<<<"i", "n">>, 3>>,
    <<<<"l", "a", "s", "t">>, 5>>,
    <<<<"t", "h", "i", "s">>, 3>>,
    <<<<"y", "e", "s", "t", "e", "r", "d", "a", "y">>, 5>>,
    <<<<"t", "o", "d", "a", "y">>, 5>>,
    <<<<"w", "e", "e", "k">>, 4>>,
    <<<<"m", "o", "n", "t", "h">>, 4>>,
    <<<<"y", "e", "a", "r">>, 4>>,
    <<<<"d", "u", "r", "i", "n", "g">>, 4>>,
    <<<<"b", "e", "t", "w", "e", "e", "n">>, 5>>,
    <<<<"t", "o">>, 3>>,
    <<<<"j", "a", "n", "u", "a", "r", "y">>, 4>>,
    <<<<"j", "a", "n">>, 3>>,
    <<<<"f", "e", "b", "r", "u", "a", "r", "y">>, 4>>,
    <<<<"f", "e", "b">>, 3>>,
    <<<<"m", "a", "r", "c", "h">>, 4>>,
    <<<<"m", "a", "r">>, 3>>,
    <<<<"a", "p", "r", "i", "l">>, 4>>,
    <<<<"a", "p", "r">>, 3>>,
    <<<<"m", "a", "y">>, 4>>,
    <<<<"j", "u", "n", "e">>, 4>>,
    <<<<"j", "u", "n">>, 3>>,
    <<<<"j", "u", "l", "y">>, 4>>,
    <<<<"j", "u", "l">>, 3>>,
    <<<<"a", "u", "g", "u", "s", "t">>, 4>>,
    <<<<"a", "u", "g">>, 3>>,
    <<<<"s", "e", "p", "t", "e", "m", "b", "e", "r">>, 4>>,
    <<<<"s", "e", "p", "t">>, 3>>,
    <<<<"s", "e", "p">>, 3>>,
    <<<<"o", "c", "t", "o", "b", "e", "r">>, 4>>,
    <<<<"o", "c", "t">>, 3>>,
    <<<<"n", "o", "v", "e", "m", "b", "e", "r">>, 4>>,
    <<<<"n", "o", "v">>, 3>>,
    <<<<"d", "e", "c", "e", "m", "b", "e", "r">>, 4>>,
    <<<<"d", "e", "c">>, 3>>,
    <<<<"p", "d", "f">>, 4>>,
    <<<<"w", "o", "r", "d">>, 4>>,
    <<<<"e", "x", "c", "e", "l">>, 4>>,
    <<<<"i", "m", "a", "g", "e">>, 3>>,
    <<<<"v", "i", "d", "e", "o">>, 3>>,
    <<<<"d", "o", "c", "u", "m", "e", "n", "t">>, 3>>,
    <<<<"f", "i", "l", "e">>, 2>>,
    <<<<"f", "i", "l", "e", "s">>, 2>>,
    <<<<"d", "o", "w", "n", "l", "o", "a", "d", "s">>, 4>>,
    <<<<"d", "e", "s", "k", "t", "o", "p">>, 4>>,
    <<<<"d", "o", "c", "u", "m", "e", "n", "t", "s">>, 4>>,
    <<<<"f", "o", "l", "d", "e", "r">>, 3>>,
    <<<<"d", "i", "r", "e", "c", "t", "o", "r", "y">>, 3>>,
    <<<<"p", "a", "t", "h">>, 2>> >>

semantic_indicators == <<
    <<<<"a", "n", "d">>, 3>>,
    <<<<"o", "r">>, 3>>,
    <<<<"b", "u", "t">>, 2>>,
    <<<<"w", "i", "t", "h">>, 2>>,
    <<<<"w", "i", "t", "h", "o", "u", "t">>, 3>>,
    <<<<"a", "b", "o", "u", "t">>, 2>>,
    <<<<"r", "e", "l", "a", "t", "e", "d">>, 2>>,
    <<<<"c", "o", "n", "t", "a", "i", "n", "i", "n", "g">>, 3>>,
    <<<<"i", "n", "c", "l", "u", "d", "i", "n", "g">>, 2>>,
    <<<<"e", "x", "c", "l", "u", "d", "i", "n", "g">>, 2>>,
    <<<<"b", "e", "f", "o", "r", "e">>, 3>>,
    <<<<"a", "f", "t", "e", "r">>, 3>>,
    <<<<"s", "i", "n", "c", "e">>, 3>>,
    <<<<"u", "n", "t", "i", "l">>, 3>>,
    <<<<"c", "r", "e", "a", "t", "e", "d">>, 2>>,
    <<<<"m", "o", "d", "i", "f", "i", "e", "d">>, 2>>,
    <<<<"u", "p", "d", "a", "t", "e", "d">>, 2>>,
    <<<<"r", "e", "c", "e", "n", "t">>, 2>>,
    <<<<"o", "l", "d">>, 2>>,
    <<<<"n", "e", "w">>, 2>> >>

ambiguous_patterns == <<
    <<<<"h", "o", "m", "e", "w", "o", "r", "k">>, 2>>,
    <<<<"a", "s", "s", "i", "g", "n", "m", "e", "n", "t">>, 2>>,
    <<<<"p", "r", "o", "j", "e", "c", "t">>, 2>>,
    <<<<"r", "e", "p", "o", "r", "t">>, 2>>,
    <<<<"n", "o", "t", "e", "s">>, 2>>,
    <<<<"m", "e", "e", "t", "i", "n", "g">>, 2>>,
    <<<<"p", "r", "e", "s", "e", "n", "t", "a", "t", "i", "o", "n">>, 2>>,
    <<<<"d", "r", "a", "f", "t">>, 1>>,
    <<<<"f", "i", "n", "a", "l">>, 1>>,
    <<<<"v", "e", "r", "s", "i", "o", "n">>, 1>>,
    <<<<"c", "o", "p", "y">>, 1>> >>

\* The scores of the model are integers, ScoreUnit of them making 1.0.
ScoreUnit == 60000

\* The sum of the scores of the indicators, from the k-th on, that the query
\* contains, and the number of those indicators.
RECURSIVE IndicatorSum(_, _, _)
IndicatorSum(query_lower, indicators, k) ==
    IF k > Len(indicators) THEN 0
    ELSE (IF Contains(query_lower, indicators[k][1])
          THEN indicators[k][2] * (ScoreUnit \div 100) ELSE 0)
         + IndicatorSum(query_lower, indicators, k + 1)

IndicatorCount(query_lower, indicators) ==
    Cardinality({k \in 1..Len(indicators) : Contains(query_lower, indicators[k][1])})

\* QueryParser::calculate_query_complexity
calculate_query_complexity(query) ==
    LET query_lower == ToLower(query)
        word_count  == Len(Split(query_lower, Whitespace))
        length_score ==
            IF word_count <= 2 THEN 0
            ELSE IF word_count <= 5 THEN ((word_count - 2) * ScoreUnit) \div 12
            ELSE IF word_count <= 10
            THEN (ScoreUnit \div 4) + ((word_count - 5) * ScoreUnit) \div 20
            ELSE (ScoreUnit \div 2) + (Min(word_count - 10, 10) * ScoreUnit) \div 40
        found_indicators == IndicatorCount(query_lower, filter_indicators)
        filter_score ==
            Min((Min(IndicatorSum(query_lower, filter_indicators, 1), (35 * ScoreUnit) \div 100)
                   * (100 + (found_indicators - 1) * 15)) \div 100,
                (35 * ScoreUnit) \div 100)
        semantic_score ==
            Min(IndicatorSum(query_lower, semantic_indicators, 1), (20 * ScoreUnit) \div 100)
        ambiguity_score ==
            Min(IndicatorSum(query_lower, ambiguous_patterns, 1), (15 * ScoreUnit) \div 100)
        structure_score ==
            (IF Contains(query, <<"?">>) THEN (2 * ScoreUnit) \div 100 ELSE 0)
            + (IF Contains(query, <<",">>) \/ Contains(query, <<";">>)
               THEN (2 * ScoreUnit) \div 100 ELSE 0)
            + (IF Contains(query, <<"\"">>) \/ Contains(query, <<"'">>)
               THEN ScoreUnit \div 100 ELSE 0)
    IN  Min(length_score + filter_score + semantic_score + ambiguity_score
              + structure_score, ScoreUnit)

\* A parser that takes every query to be complex enough for the LLM.
AlwaysTryLlm(query) == TRUE

\* QueryParser::should_try_llm: the complexity reaches the threshold 0.3.
should_try_llm(query) == calculate_query_complexity(query) >= (3 * ScoreUnit) \div 10

\* The model the handler of POST /api/parse creates its parser with
\* (api/parse.rs:26).
ParseRequestModel == <<"l", "l", "a", "m", "a", "3", ".", "2", ":", "1", "b">>

\* What the LLM service does with one request: the request fails to be sent,
\* the service answers with an error status, the body of its answer is not
\* the JSON of a response, the text in it is not JSON, the JSON in it is not
\* that of an answer (a field is missing or has another type), or the text is
\* the JSON of the answer `parsed`.
LlmFailures == {"transport", "status", "body", "syntax", "data"}
LlmDateFilters ==
    { None,
      Some([month |-> Some(3), year |-> Some(2024)]),
      Some([month |-> Some(13), year |-> None]) }
LlmAnswers ==
    { [search_query |-> q, date_filter |-> d, file_types |-> t, folder_paths |-> f] :
        q \in { <<" ", "h", "o", "t", "e", "l", " ", "b", "o", "o", "k", "i", "n", "g", " ">> },
        d \in LlmDateFilters,
        t \in { None, Some(<< <<"p", "d", "f">> >>) },
        f \in { Some(<<>>), Some(<< <<"D", "o", "w", "n", "l", "o", "a", "d", "s">> >>) } }
LlmOutcomes ==
    {[kind |-> k, parsed |-> None] : k \in LlmFailures}
        \cup {[kind |-> "answer", parsed |-> Some(a)] : a \in LlmAnswers}

\* An exchange with the LLM service whose failures go unnoticed: whatever the
\* service does, the caller gets an answer without filters.
LlmNeverFails(query, outcome, now) ==
    Some([query |-> query, filters |-> NoFilters])

\* QueryParser::parse_with_llm: None (an Err) when the exchange fails at one
\* of its `?` and at its bail!, the converted answer otherwise.
parse_with_llm(query, outcome, now) ==
    IF outcome.kind \in LlmFailures THEN None
    ELSE Some(FromLlmAnswer(query, Get(outcome.parsed), now))

\* The cache key of a query, and the life time of a cache entry in seconds.
CacheKey(query) == Trim(ToLower(query))
CacheLife == 300

\* HashMap::insert without the retain that follows it.
InsertWithoutReaping(cache, key, result, timestamp) ==
    [k \in DOMAIN cache \cup {key} |->
        IF k = key THEN [result |-> result, timestamp |-> timestamp] ELSE cache[k]]

\* HashMap::insert followed by retain(|_, (_, ts)| now - *ts < 300)
CacheInsert(cache, key, result, timestamp) ==
    LET inserted == [k \in DOMAIN cache \cup {key} |->
                        IF k = key THEN [result |-> result, timestamp |-> timestamp]
                        ELSE cache[k]]
    IN  [k \in {j \in DOMAIN inserted : timestamp - inserted[j].timestamp < CacheLife} |->
            inserted[k]]

HasFilters(filters) ==
    \/ filters.date_range # None
    \/ filters.file_types # None
    \/ filters.folder_paths # None

MaxParses == 2

\* The queries of the model and the times at which it parses them.
ParserQueries ==
    { <<"h", "o", "m", "e", "w", "o", "r", "k">>,
      <<"h", "o", "m", "e", "w", "o", "r", "k", " ", "f", "r", "o", "m", " ", "d", "e", "c", "e", "m", "b", "e", "r">>,
      <<"c", "h", "i", "c", "a", "g", "o", " ", "h", "o", "t", "e", "l", " ", "b", "o", "o", "k", "i", "n", "g", " ", "a", "n", "d", " ", "f", "l", "i", "g", "h", "t", " ", "t", "i", "c", "k", "e", "t", "s", " ", "l", "i", "s", "t">>,
      <<"f", "i", "n", "a", "l", " ", "v", "e", "r", "s", "i", "o", "n", " ", "o", "f", " ", "t", "h", "e", " ", "p", "r", "o", "j", "e", "c", "t", " ", "r", "e", "p", "o", "r", "t", " ", "w", "i", "t", "h", " ", "n", "e", "w", " ", "f", "i", "g", "u", "r", "e", "s">>,
      <<"n", "o", "t", "e", "s", " ", "f", "r", "o", "m", " ", "t", "h", "e", " ", "l", "e", "c", "t", "u", "r", "e", " ", "a", "b", "o", "u", "t", " ", "c", "e", "l", "l", "s", " ", "a", "n", "d", " ", "t", "i", "s", "s", "u", "e", "s">> }
\* Noon of 2024-06-15.
ParserEpoch == MonthStart(2024, 6) + 14 * 86400 + 43200
ParserTimes ==
    {ParserEpoch, ParserEpoch + CacheLife - 1, ParserEpoch + CacheLife, ParserEpoch + CacheLife + 1}

\* parse_pattern_only, should_try_llm, parse_with_llm and the cache key on the
\* queries, the outcomes and at the times of the model, computed once.
PatternOnly ==
    [query \in ParserQueries, timestamp \in ParserTimes |->
        parse_pattern_only(query, Now(timestamp))]
ShouldTryLlm == [query \in ParserQueries |-> should_try_llm(query)]
ParseWithLlm ==
    [query \in ParserQueries, outcome \in LlmOutcomes, timestamp \in ParserTimes |->
        parse_with_llm(query, outcome, Now(timestamp))]
CacheKeyOf == [query \in ParserQueries |-> CacheKey(query)]
ComplexityOf == [query \in ParserQueries |-> calculate_query_complexity(query)]

\* QueryParser::parse (query_parser.rs:31-111) at time `timestamp`, the LLM
\* service answering with `outcome` if it is asked.
parse(query, outcome, timestamp) ==
    LET pattern    == PatternOnly[query, timestamp]
        tried      == /\ ~HasFilters(pattern.filters)
                      /\ llm_model # <<>>
                      /\ ShouldTryLlm[query]
        cache_key  == CacheKeyOf[query]
        cached     == /\ cache_key \in DOMAIN llm_cache
                      /\ timestamp - llm_cache[cache_key].timestamp < CacheLife
        asked      == tried /\ ~cached
        llm_result == ParseWithLlm[query, outcome, timestamp]
        result     == IF tried /\ cached THEN llm_cache[cache_key].result
                      ELSE IF asked /\ llm_result # None THEN Get(llm_result)
                      ELSE pattern
    IN  /\ calls < MaxParses
        /\ call # None => timestamp >= Get(call).now
        /\ calls' = calls + 1
        /\ llm_cache' = IF asked /\ llm_result # None
                        THEN CacheInsert(llm_cache, cache_key, Get(llm_result), timestamp)
                        ELSE llm_cache
        /\ call' = Some([name |-> "parse", query |-> query, now |-> timestamp,
                         outcome |-> IF asked THEN Some(outcome) ELSE None,
                         cache_read |-> tried,
                         cache |-> llm_cache, result |-> result])
        /\ UNCHANGED <<storageVars, task, passed, fs, indexVars, watchVars, searchVars,
                       scanVars, settingsVars, llm_model>>

\* A parser that has parsed nothing yet.
NewParser ==
    /\ EmptyStorage
    /\ task = <<>>
    /\ calls = 0
    /\ fs = <<>>
    /\ NoIndexRuns
    /\ NoWatcher
    /\ NoScan
    /\ NoCall
    /\ NoSettings
    /\ llm_cache = <<>>
    /\ config = DefaultConfig
    /\ search = None
    /\ searches = 0
    /\ passed = {}

ParserInit == NewParser /\ llm_model = ParseRequestModel

ParserNext ==
    \E query \in ParserQueries, outcome \in LlmOutcomes, timestamp \in ParserTimes :
        parse(query, outcome, timestamp)

SpecParser == ParserInit /\ [][ParserNext]_vars

\* The last call of parse asked the LLM and got the JSON of an answer.
LlmAnswered ==
    /\ call # None
    /\ Get(call).name = "parse"
    /\ Get(call).outcome # None
    /\ Get(Get(call).outcome).kind = "answer"

LastAnswer == Get(Get(Get(call).outcome).parsed)

\* A date token stands in the query as a word (or as two words) of its own,
\* or one of the query's words is a year.
HasDateWord(query) ==
    LET padded == <<" ">> \o ToLower(query) \o <<" ">>
    IN  \/ \E t \in DOMAIN date_tokens :
               Contains(padded, <<" ">> \o date_tokens[t] \o <<" ">>)
        \/ \E w \in SeqToSet(Split(ToLower(query), Whitespace)) :
               /\ Len(w) = 4
               /\ ParseInt(TrimNonDigits(w)) # None
               /\ Get(ParseInt(TrimNonDigits(w))) \in 1900..2100

\* The queries of the model that hold a date token as a word, and those that
\* hold one anywhere in their text.
WithDateWord == {query \in ParserQueries : HasDateWord(query)}
WithDateSubstring == {query \in ParserQueries : has_explicit_date_tokens(query)}

\* The file-type and folder filters of the result are those of the answer.
ListsOfAnswerKept ==
    /\ Get(call).result.filters.file_types = NonEmptyList(LastAnswer.file_types)
    /\ Get(call).result.filters.folder_paths = NonEmptyList(LastAnswer.folder_paths)

\* C24: when the query holds no date token, the ParsedQuery made of an LLM
\* answer has no date filter, whatever date_filter the answer holds, and its
\* file-type and folder filters are those of the answer.
LlmDateDroppedWithoutDateToken ==
    LlmAnswered /\ Get(call).query \notin WithDateWord =>
        /\ Get(call).result.filters.date_range = None
        /\ ListsOfAnswerKept

\* The same with the test the code makes, a date token anywhere in the text
\* of the query, inside a word included.
LlmDateDroppedWithoutDateSubstring ==
    LlmAnswered /\ Get(call).query \notin WithDateSubstring =>
        /\ Get(call).result.filters.date_range = None
        /\ ListsOfAnswerKept

\* The last call of parse asked the LLM and the exchange failed.
LlmFailed ==
    /\ call # None
    /\ Get(call).name = "parse"
    /\ Get(call).outcome # None
    /\ Get(Get(call).outcome).kind \in LlmFailures

\* C25: when the exchange with the LLM fails (the request is not sent, the
\* status is an error, the body or the JSON in it is malformed or of another
\* shape), parse returns the ParsedQuery that parse_pattern_only gives for
\* the same query and the cache is left as it was.
LlmFailureFallsBackToPattern ==
    LlmFailed =>
        /\ Get(call).result = PatternOnly[Get(call).query, Get(call).now]
        /\ llm_cache = Get(call).cache

\* The exchange failed for a query of which the cache holds an expired answer.
LlmFailureWitness ==
    /\ LlmFailed
    /\ CacheKeyOf[Get(call).query] \in DOMAIN llm_cache

(***************************************************************************)
(* Pattern extraction on its own: parse_pattern_only on the queries        *)
(* "<words> in <folder>", the folder written as in the taxonomy or in      *)
(* lower case.                                                             *)
(***************************************************************************)
FolderWords ==
    { <<"h", "o", "m", "e", "w", "o", "r", "k">>,
      <<"b", "u", "d", "g", "e", "t", " ", "r", "e", "p", "o", "r", "t">>,
      <<"t", "a", "x", " ", "f", "o", "r", "m", "s">>,
      <<"o", "l", "d", " ", "l", "e", "t", "t", "e", "r", "s">> }

\* The ways of writing the k-th folder of the taxonomy.
Spellings(k) == {folder_patterns[k].folder_name, ToLower(folder_patterns[k].folder_name)}

FolderQuery(words, written) == words \o <<" ", "i", "n", " ">> \o written

PatternParse(words, k, written, timestamp) ==
    /\ call = None
    /\ call' = Some([name   |-> "parse_pattern_only",
                     words  |-> words,
                     folder |-> folder_patterns[k].folder_name,
                     query  |-> FolderQuery(words, written),
                     now    |-> timestamp,
                     result |-> parse_pattern_only(FolderQuery(words, written),
                                                   Now(timestamp))])
    /\ UNCHANGED <<storageVars, task, calls, passed, fs, indexVars, watchVars, searchVars,
                   scanVars, settingsVars, parserVars>>

PatternsNext ==
    \E words \in FolderWords, k \in DOMAIN folder_patterns, timestamp \in ParserTimes :
        \E written \in Spellings(k) : PatternParse(words, k, written, timestamp)

SpecPatterns == ParserInit /\ [][PatternsNext]_vars

\* The folder of the parsed query is among the folder filters of the result
\* and the words before the cue are in the residual text.
FolderFound ==
    /\ Get(call).result.filters.folder_paths # None
    /\ Get(call).folder \in SeqToSet(Get(Get(call).result.filters.folder_paths))
    /\ Contains(Get(call).result.query, Get(call).words)

\* C26: for every folder of the taxonomy, the query "<words> in <folder>"
\* yields folder filters that hold the folder, whatever the file-type
\* extraction before it found, and the words stay in the residual text.
EveryFolderRecognised ==
    call # None /\ Get(call).name = "parse_pattern_only" => FolderFound

\* The same for the queries that write the folder as the taxonomy does, with
\* its capital letter.
CapitalisedFolderRecognised ==
    /\ call # None
    /\ Get(call).name = "parse_pattern_only"
    /\ Contains(Get(call).query, Get(call).folder)
    => FolderFound

(***************************************************************************)
(* The operations of the ANN index in any order: add, remove (by path),    *)
(* clear and rebuild_from_embeddings, on records whose ids and paths may   *)
(* repeat.                                                                 *)
(***************************************************************************)
\* HnswIndex::clear
HnswClear(h) == [h EXCEPT !.embeddings = <<>>, !.metadata_list = <<>>, !.id_to_index = {}]

\* The vector that goes with the i-th path; the last one has one component.
OpsVector(i) == IF i = 1 THEN <<1, 0>> ELSE IF i = 2 THEN <<0, 1>> ELSE <<1>>

\* The record of the i-th path under id `id`.
OpsRow(id, i) == [AnnRow(i) EXCEPT !.id = id]

OpsPair(id, i) == [metadata |-> OpsRow(id, i), embedding |-> OpsVector(i)]

\* The lists of (record, vector) pairs given to rebuild_from_embeddings.
OpsLists ==
    {<<>>}
        \cup {<<OpsPair(id, i)>> : id \in 1..2, i \in 1..3}
        \cup {<<OpsPair(1, i), OpsPair(2, j)>> : i \in 1..3, j \in 1..3}

OpsAdd(id, i) ==
    /\ Len(Get(hnsw).embeddings) < MaxEntries
    /\ hnsw' = Some(HnswAdd(Get(hnsw), OpsVector(i), OpsRow(id, i)))
    /\ UNCHANGED <<storageVars, task, calls, passed, fs, run, is_indexing, progress,
                   watchVars, searchVars, scanVars, callVars, settingsVars, parserVars>>

OpsRemove(i) ==
    /\ hnsw' = Some(HnswRemove(Get(hnsw), AnnPath(i)))
    /\ UNCHANGED <<storageVars, task, calls, passed, fs, run, is_indexing, progress,
                   watchVars, searchVars, scanVars, callVars, settingsVars, parserVars>>

OpsClear ==
    /\ hnsw' = Some(HnswClear(Get(hnsw)))
    /\ UNCHANGED <<storageVars, task, calls, passed, fs, run, is_indexing, progress,
                   watchVars, searchVars, scanVars, callVars, settingsVars, parserVars>>

OpsRebuild(pairs) ==
    /\ hnsw' = Some(RebuildFromEmbeddings(Get(hnsw), pairs))
    /\ UNCHANGED <<storageVars, task, calls, passed, fs, run, is_indexing, progress,
                   watchVars, searchVars, scanVars, callVars, settingsVars, parserVars>>

OpsNext ==
    \/ \E id \in 1..2, i \in 1..3 : OpsAdd(id, i)
    \/ \E i \in 1..3 : OpsRemove(i)
    \/ OpsClear
    \/ \E pairs \in OpsLists : OpsRebuild(pairs)

SpecAnnOps == AnnInit /\ [][OpsNext]_vars

\* The two arrays have the same length and slot s of both belongs to the
\* same record: the vector is the one the record's path was added with.
ParallelArrays ==
    LET h == Get(hnsw)
    IN  /\ Len(h.embeddings) = Len(h.metadata_list)
        /\ \A s \in 1..Len(h.metadata_list) :
               \E i \in 1..3 : /\ h.metadata_list[s].file_path = AnnPath(i)
                               /\ h.embeddings[s] = OpsVector(i)

\* The slot map holds one entry for each stored record, and it points to the
\* record's slot.
SlotMapExact ==
    LET h == Get(hnsw)
    IN  /\ Cardinality(h.id_to_index) = Len(h.metadata_list)
        /\ \A s \in 1..Len(h.metadata_list) :
               [key |-> h.metadata_list[s].id, value |-> s - 1] \in h.id_to_index

\* C27: after any sequence of add, remove, clear and rebuild the vector and
\* record arrays are parallel and the slot map holds exactly one entry for
\* each stored record, pointing to its current slot.
AnnIndexConsistent == ParallelArrays /\ SlotMapExact

(***************************************************************************)
(* Indexer::generate_safe_embedding on its own: one text, and what the     *)
(* embedding service does with each request it gets.                       *)
(***************************************************************************)
\* The errors of EmbeddingService::generate_embedding (embedding.rs:31-52),
\* by their messages: the request could not be sent, and the statuses 500,
\* 400 (the context is too long) and 404.
TransportError == <<"e", "r", "r", "o", "r", " ", "s", "e", "n", "d", "i", "n", "g", " ", "r", "e", "q", "u", "e", "s", "t", " ", "f", "o", "r", " ", "u", "r", "l", " ", "(", "h", "t", "t", "p", ":", "/", "/", "l", "o", "c", "a", "l", "h", "o", "s", "t", ":", "1", "1", "4", "3", "4", "/", "a", "p", "i", "/", "e", "m", "b", "e", "d", "d", "i", "n", "g", "s", ")">>
BackendError == <<"O", "l", "l", "a", "m", "a", " ", "A", "P", "I", " ", "e", "r", "r", "o", "r", ":", " ", "5", "0", "0", " ", "I", "n", "t", "e", "r", "n", "a", "l", " ", "S", "e", "r", "v", "e", "r", " ", "E", "r", "r", "o", "r", " ", "-", " ">>
OversizeError == <<"O", "l", "l", "a", "m", "a", " ", "A", "P", "I", " ", "e", "r", "r", "o", "r", ":", " ", "4", "0", "0", " ", "B", "a", "d", " ", "R", "e", "q", "u", "e", "s", "t", " ", "-", " ", "i", "n", "p", "u", "t", " ", "e", "x", "c", "e", "e", "d", "s", " ", "t", "h", "e", " ", "c", "o", "n", "t", "e", "x", "t", " ", "l", "e", "n", "g", "t", "h">>
NotFoundError == <<"O", "l", "l", "a", "m", "a", " ", "A", "P", "I", " ", "e", "r", "r", "o", "r", ":", " ", "4", "0", "4", " ", "N", "o", "t", " ", "F", "o", "u", "n", "d", " ", "-", " ", "m", "o", "d", "e", "l", " ", "n", "o", "t", " ", "f", "o", "u", "n", "d">>
ServiceErrors == {TransportError, BackendError, OversizeError, NotFoundError}

\* What the service does with one request: Ok (a vector) or Err (a message).
ServiceOutcomes ==
    {[ok |-> TRUE, error |-> <<>>]} \cup {[ok |-> FALSE, error |-> e] : e \in ServiceErrors}

\* The error messages after which generate_safe_embedding tries again.
IsContextError(error_msg) ==
    \/ Contains(error_msg, <<"5", "0", "0">>)
    \/ Contains(error_msg, <<"c", "o", "n", "t", "e", "x", "t", " ", "l", "e", "n", "g", "t", "h">>)
    \/ Contains(error_msg, <<"I", "n", "t", "e", "r", "n", "a", "l", " ", "S", "e", "r", "v", "e", "r", " ", "E", "r", "r", "o", "r">>)

\* A text: its length in bytes (str::len) and in characters.
EmbedTexts ==
    {[len |-> n, chars |-> n] : n \in {8, 19, 20, 41, 100}}
        \cup {[len |-> 60, chars |-> 20], [len |-> 80, chars |-> 20]}

\* text.chars().take(n).collect(): the number of characters of the result.
TakeChars(text, n) == Min(n, text.chars)

\* Indexer::generate_safe_embedding: the requests made, as the number of
\* characters each one sent, and the result; outcomes[k] is what the service
\* does with the k-th request.
generate_safe_embedding(text, outcomes) ==
    LET half_len    == text.len \div 2
        quarter_len == text.len \div 4
        first       == <<text.chars>>
        second      == Append(first, TakeChars(text, half_len))
        third       == Append(second, TakeChars(text, quarter_len))
    IN  IF outcomes[1].ok THEN [sent |-> first, result |-> outcomes[1]]
        ELSE IF ~IsContextError(outcomes[1].error)
        THEN [sent |-> first, result |-> outcomes[1]]
        ELSE IF half_len < 10 THEN [sent |-> first, result |-> outcomes[1]]
        ELSE IF outcomes[2].ok THEN [sent |-> second, result |-> outcomes[2]]
        ELSE [sent |-> third, result |-> outcomes[3]]

EmbedInit == ParserInit

Embed(text, outcomes) ==
    /\ call = None
    /\ call' = Some([name |-> "generate_safe_embedding", text |-> text,
                     outcomes |-> outcomes,
                     returned |-> generate_safe_embedding(text, outcomes)])
    /\ UNCHANGED <<storageVars, task, calls, passed, fs, indexVars, watchVars, searchVars,
                   scanVars, settingsVars, parserVars>>

EmbedNext ==
    \E text \in EmbedTexts, outcomes \in [1..3 -> ServiceOutcomes] : Embed(text, outcomes)

SpecEmbed == EmbedInit /\ [][EmbedNext]_vars

Embedded == call # None /\ Get(call).name = "generate_safe_embedding"

\* The requests of the last call: how many, and what each one sent and got.
RequestsMade == Len(Get(call).returned.sent)
SentChars(k) == Get(call).returned.sent[k]
Outcome(k) == Get(call).outcomes[k]

\* At most three requests: the whole text, then at most half and at most a
\* quarter of its characters, each one after the one before it failed.
ShrinkingRequests ==
    /\ RequestsMade \in 1..3
    /\ SentChars(1) = Get(call).text.chars
    /\ RequestsMade >= 2 => 2 * SentChars(2) <= Get(call).text.chars
    /\ RequestsMade >= 3 => 4 * SentChars(3) <= Get(call).text.chars
    /\ \A k \in 1..(RequestsMade - 1) : ~Outcome(k).ok

\* A request is repeated only after an oversize-context or backend error,
\* never after a transport error.
OnlyContextErrorsRetried ==
    \A k \in 1..(RequestsMade - 1) : Outcome(k).error \in {OversizeError, BackendError}

\* What the caller gets is what the last request got, its error included.
LastOutcomeReturned == Get(call).returned.result = Outcome(RequestsMade)

\* C28: the wrapper makes at most three requests, on the whole text, then
\* 50% and 25% of it, each after the failure of the one before; it repeats a
\* request only after an oversize-context or backend error, never after a
\* transport error; and the error of the last request is returned.
EmbeddingRetriedOnContextErrors ==
    Embedded => ShrinkingRequests /\ OnlyContextErrorsRetried /\ LastOutcomeReturned

(***************************************************************************)
(* Index runs started by POST /api/index/start one after the other, each   *)
(* followed by the rebuild of the ANN index, while files are removed from  *)
(* the disk between them.                                                  *)
(***************************************************************************)
RebuildFs ==
    [p \in {PathA, PathC} |-> Some(RegularFile(1, 1, Some(Small)))]

RebuildInit ==
    /\ EmptyStorage
    /\ task = [t \in RunIds \X (1..BATCH_SIZE) |-> Idle]
    /\ calls = 0
    /\ fs = RebuildFs
    /\ run = [r \in RunIds |-> NoRun]
    /\ is_indexing = [ix \in RunIds |-> FALSE]
    /\ progress = None
    /\ hnsw = None
    /\ NoWatcher
    /\ NoScan
    /\ NoCall
    /\ NoSettings
    /\ NoParser
    /\ NoSearch

\* No index_directory run is under way.
NoRunUnderWay == \A r \in RunIds : run[r].pc \in {"none", "returned"}

\* A file is deleted from the disk and the watcher handles the Remove event
\* (file_watcher.rs:71-81): the record of the file is deleted from Storage.
RemoveHandled(path) ==
    /\ NoRunUnderWay
    /\ IsFile(fs, path)
    /\ fs' = [fs EXCEPT ![path] = None]
    /\ files' = DeleteRow(files, path)
    /\ passed' = {e \in passed : e.file_path # path}
    /\ UNCHANGED <<blob, next_id, task, calls, indexVars, watchVars, searchVars, scanVars,
                   callVars, settingsVars, parserVars>>

RebuildNext ==
    \/ \E r \in RunIds :
        \/ NoRunUnderWay /\ StartIndexing(r, Root)
        \/ EnterRun(r)
        \/ InitProgress(r)
        \/ SpawnBatch(r)
        \/ AwaitTask(r)
        \/ ClearProgress(r)
        \/ ReleaseFlag(r)
        \/ RebuildAfterIndexing(r)
    \/ \E t \in DOMAIN task :
        \/ TaskBegin(t)
        \/ \E outcome \in {None, Some(<<1, 0>>)} : TaskEmbed(t, outcome)
        \/ AddFileSelect(t)
        \/ AddFileFail(t)
        \/ AddFileOffset(t)
        \/ AddFileAppend(t)
        \/ AddFileInsert(t)
    \/ \E path \in DOMAIN RebuildFs : RemoveHandled(path)

SpecRebuild == RebuildInit /\ [][RebuildNext]_vars

\* The (record, vector) entries of the ANN index, none when there is no index.
AnnEntries ==
    IF hnsw = None THEN {}
    ELSE {[metadata |-> Get(hnsw).metadata_list[s], embedding |-> Get(hnsw).embeddings[s]] :
             s \in 1..Len(Get(hnsw).metadata_list)}

\* The records of Storage that have a vector, each with its vector.
StorageEntries ==
    {[metadata |-> r, embedding |-> Get(GetEmbedding(blob, r))] :
        r \in {x \in files : GetEmbedding(blob, x) # None}}

\* C29: the rebuild that follows a completed run leaves in the ANN index
\* exactly the records of Storage that have a vector, each with its vector;
\* when Storage holds no vector the index is left empty.
RebuildMirrorsStorage ==
    [][\A r \in RunIds : RebuildAfterIndexing(r) => (AnnEntries = StorageEntries)']_vars

\* The same for the rebuilds made when Storage holds a vector.
RebuildMirrorsNonEmptyStorage ==
    [][\A r \in RunIds :
          RebuildAfterIndexing(r) /\ StorageEntries # {} => (AnnEntries = StorageEntries)']_vars

(***************************************************************************)
(* The shared progress record (main.rs:33, 83; api/index.rs:42) and the    *)
(* runs that write it.                                                     *)
(***************************************************************************)

\* The runs between the initialisation of the progress record (indexer.rs:
\* 79-89) and its clearing (212-215).
ProgressRuns == {r \in RunIds : run[r].pc \in {"spawn", "await", "clear_progress"}}

\* While a run is between initialisation and clearing the record is present,
\* marked as indexing, with current within total, and that run is the only one.
ProgressPresent ==
    /\ ProgressRuns # {} => progress # None /\ Get(progress).is_indexing
    /\ progress # None => Get(progress).current <= Get(progress).total
    /\ Cardinality(ProgressRuns) <= 1

\* A step never lowers current while the record stays, and removes the record
\* only when it leaves no run between initialisation and clearing.
ProgressStep ==
    /\ progress # None /\ progress' # None
          => Get(progress').current >= Get(progress).current
    /\ progress # None /\ progress' = None => ProgressRuns' = {}

\* C30: the progress record lives as long as an index_directory run and has
\* one writer: while a run is active the record is present with is_indexing
\* set, current never decreases and never exceeds total, only that run writes
\* it, and it becomes absent only when no run is active any more.
ProgressLivesWithRun == [](ProgressPresent) /\ [][ProgressStep]_vars

\* The state part of the statement in a run that shares the process with no
\* other run.
OneRunProgressPresent ==
    Cardinality({r \in RunIds : run[r].pc # "none"}) <= 1 => ProgressPresent

(***************************************************************************)
(* index_file on content-class files whose text extraction fails, yields   *)
(* blank text, or yields text (indexer.rs:223-361, 570-601).               *)
(***************************************************************************)

\* Text that is empty after trimming.
Blank == [words |-> 0, word_len |-> 0]

\* The Results of ParserRegistry::extract_text on the files of the model.
ExtractedTexts == {None, Some(Blank), Some(Small), Some(Large)}

ContentPaths == {PathA, PathC}

ContentInit ==
    /\ EmptyStorage
    /\ task = <<>>
    /\ calls = 0
    /\ \E text \in ExtractedTexts :
           fs = [p \in ContentPaths |-> Some(RegularFile(1, 1, text))]
    /\ NoIndexRuns
    /\ NoWatcher
    /\ NoScan
    /\ NoCall
    /\ NoSettings
    /\ NoParser
    /\ NoSearch

\* A file is rewritten: another extraction result, a later modification
\* time, another size.
ContentRewrite(path, text) ==
    /\ calls < MaxSteps
    /\ calls' = calls + 1
    /\ fs' = [fs EXCEPT ![path] =
                 Some(RegularFile(Get(fs[path]).modified_time + 1,
                                  Get(fs[path]).file_size + 1, text))]
    /\ UNCHANGED <<storageVars, task, passed, indexVars, watchVars, searchVars, scanVars,
                   callVars, settingsVars, parserVars>>

\* index_file(path) run to completion; the embedding request numbered
\* fail_at fails (none when fail_at = 0).  call.embeds is the number of
\* requests made to the embedding service.
ContentIndexFile(path, fail_at) ==
    /\ calls < MaxSteps
    /\ calls' = calls + 1
    /\ LET file == Get(fs[path])
           n    == EmbeddingCount(path, file)
           done == IndexFileOf([files |-> files, blob |-> blob, next_id |-> next_id],
                               path, file,
                               [k \in 1..n |-> IF k = fail_at THEN None ELSE Some(<<1, 0>>)],
                               n)
       IN  /\ fail_at <= n
           /\ files' = done.st.files
           /\ blob' = done.st.blob
           /\ next_id' = done.st.next_id
           /\ call' = Some([name |-> "index_file", file_path |-> path, file |-> file,
                            ok |-> done.ok,
                            embeds |-> IF fail_at = 0 THEN n ELSE fail_at,
                            before |-> GetFileMetadata(files, path)])
    /\ UNCHANGED <<task, passed, fs, indexVars, watchVars, searchVars, scanVars, settingsVars, parserVars>>

ContentNext ==
    \/ \E path \in ContentPaths, text \in ExtractedTexts : ContentRewrite(path, text)
    \/ \E path \in ContentPaths, fail_at \in 0..MaxSections : ContentIndexFile(path, fail_at)

SpecContent == ContentInit /\ [][ContentNext]_vars

\* The last index_file call was for a file whose text extraction failed or
\* gave text that is empty after trimming.
NoTextExtracted ==
    /\ call # None
    /\ Get(call).file.text = None \/ Get(Get(call).file.text).words = 0

\* C31: when text extraction fails or the extracted text is empty after
\* trimming, index_file of a content-class file makes no embedding call,
\* upserts a metadata-only record (embedding_offset = embedding_length = 0)
\* with the file's current size and modified_time, and returns success.
NoTextDowngradesToMetadataOnly ==
    NoTextExtracted =>
        /\ Get(call).embeds = 0
        /\ Get(call).ok
        /\ \E r \in files :
              /\ r.file_path = Get(call).file_path
              /\ r.embedding_offset = 0
              /\ r.embedding_length = 0
              /\ r.file_size = Get(call).file.file_size
              /\ r.modified_time = Get(call).file.modified_time

\* A file indexed with a vector is indexed again after its text stopped
\* being extractable.
DowngradeWitness ==
    /\ NoTextExtracted
    /\ Get(call).before # None
    /\ Get(Get(call).before).embedding_length > 0

(***************************************************************************)
(* Parsers created with and without an LLM model (QueryParser::new,        *)
(* query_parser.rs:20-27).                                                 *)
(***************************************************************************)
ModelsInit == NewParser /\ llm_model \in {<<>>, ParseRequestModel}

SpecModels == ModelsInit /\ [][ParserNext]_vars

\* What pattern extraction gave for the query of the last call.
LastPattern == PatternOnly[Get(call).query, Get(call).now]

\* The last call asked the LLM or read the cache.
LlmConsulted == call # None /\ (Get(call).cache_read \/ Get(call).outcome # None)

\* C32: parse consults the LLM or its cache only when pattern extraction
\* found no filter, a model is configured and the complexity of the query
\* is at least 0.3; when pattern extraction found a filter the pattern
\* result is returned and neither the LLM nor the cache is touched.
LlmConsultedOnlyWhenNeeded ==
    /\ LlmConsulted =>
          /\ ~HasFilters(LastPattern.filters)
          /\ llm_model # <<>>
          /\ 10 * ComplexityOf[Get(call).query] >= 3 * ScoreUnit
    /\ call # None /\ HasFilters(LastPattern.filters) =>
          /\ Get(call).result = LastPattern
          /\ ~LlmConsulted
          /\ llm_cache = Get(call).cache

\* A parse that returned the filters found by pattern extraction, on a parser
\* whose cache holds the answer the LLM gave to an earlier query.
FiltersFoundWitness ==
    /\ call # None
    /\ HasFilters(LastPattern.filters)
    /\ llm_cache # <<>>

\* The entry the cache held for the query of the last call when the call
\* began, and its age in seconds at that time.
CachedBefore ==
    /\ call # None
    /\ Get(call).cache_read
    /\ CacheKeyOf[Get(call).query] \in DOMAIN Get(call).cache
EntryBefore == Get(call).cache[CacheKeyOf[Get(call).query]]
AgeBefore == Get(call).now - EntryBefore.timestamp

\* C33: the parser cache honours a life time of 300 s: an entry of age 300 s
\* or more is never returned, the LLM is asked again; a younger entry is
\* returned without asking the LLM; and after every insert the cache holds
\* no entry older than 300 s.
CacheHonoursLifeTime ==
    /\ CachedBefore /\ AgeBefore >= CacheLife => Get(call).outcome # None
    /\ CachedBefore /\ AgeBefore < CacheLife =>
          /\ Get(call).outcome = None
          /\ Get(call).result = EntryBefore.result
          /\ llm_cache = Get(call).cache
    /\ LlmAnswered =>
          /\ CacheKeyOf[Get(call).query] \in DOMAIN llm_cache
          /\ \A k \in DOMAIN llm_cache :
                Get(call).now - llm_cache[k].timestamp <= CacheLife

\* The entry of the query had reached 300 s, the LLM was asked again and its
\* answer replaced the entry.
ExpiredEntryRefreshed ==
    /\ CachedBefore
    /\ AgeBefore = CacheLife
    /\ LlmAnswered
    /\ llm_cache[CacheKeyOf[Get(call).query]].timestamp = Get(call).now

(***************************************************************************)
(* The busy flag of one Indexer on which perform_startup_scan and          *)
(* index_directory are called (indexer.rs:53-221, 641-769).  `call` holds  *)
(* the position of the scan.                                               *)
(***************************************************************************)
FlagFs == [p \in {Root, PathA} |-> IF p = Root THEN Some(Directory)
                                   ELSE Some(RegularFile(1, 1, Some(Small)))]

FlagInit ==
    /\ EmptyStorage
    /\ task = [t \in RunIds \X (1..BATCH_SIZE) |-> Idle]
    /\ calls = 0
    /\ fs = FlagFs
    /\ run = [r \in RunIds |-> NoRun]
    /\ is_indexing = <<FALSE>>
    /\ progress = None
    /\ hnsw = None
    /\ NoWatcher
    /\ NoScan
    /\ NoCall
    /\ NoSettings
    /\ NoParser
    /\ config = [DefaultConfig EXCEPT !.auto_index = TRUE, !.indexed_directories = <<Root>>]
    /\ search = None
    /\ searches = 0

\* index_directory(dir) is called on the Indexer.
Invoke(r, dir) ==
    /\ run[r].pc = "none"
    /\ \A q \in RunIds : q < r => run[q].pc # "none"
    /\ run' = [run EXCEPT ![r] = [NoRun EXCEPT !.pc = "called", !.indexer = 1,
                                               !.directory = dir]]
    /\ UNCHANGED <<storageVars, task, calls, passed, fs, is_indexing, progress, hnsw,
                   watchVars, searchVars, scanVars, callVars, settingsVars, parserVars>>

\* perform_startup_scan, lines 641-652: the guards pass and the flag is set.
ScanEnter ==
    /\ call = None
    /\ ScanRuns(config, is_indexing[1])
    /\ is_indexing' = [is_indexing EXCEPT ![1] = TRUE]
    /\ call' = Some([name |-> "perform_startup_scan", pc |-> "listing", ok |-> TRUE])
    /\ UNCHANGED <<storageVars, task, calls, passed, fs, run, progress, hnsw, watchVars,
                   searchVars, scanVars, settingsVars, parserVars>>

\* Line 655: self.storage.get_all_files().await? returns the records, or the
\* scan returns the error.
ScanList(listed) ==
    /\ call # None
    /\ Get(call).pc = "listing"
    /\ call' = Some([Get(call) EXCEPT !.pc = IF listed THEN "reconcile" ELSE "returned",
                                      !.ok = listed])
    /\ UNCHANGED <<storageVars, task, calls, passed, fs, indexVars, watchVars, searchVars,
                   scanVars, settingsVars, parserVars>>

\* Lines 663-768: the walk, the deletions, the indexing of the new and
\* modified files, and the release of the flag.
ScanReconcile(entries, outcome) ==
    /\ call # None
    /\ Get(call).pc = "reconcile"
    /\ LET st    == [files |-> files, blob |-> blob, next_id |-> next_id]
           after == Reconciled(st, fs, ScanEntries(fs, entries, files, <<>>), outcome)
       IN  /\ files' = after.files
           /\ blob' = after.blob
           /\ next_id' = after.next_id
    /\ is_indexing' = [is_indexing EXCEPT ![1] = FALSE]
    /\ call' = Some([Get(call) EXCEPT !.pc = "returned"])
    /\ UNCHANGED <<task, calls, passed, fs, run, progress, hnsw, watchVars, searchVars,
                   scanVars, settingsVars, parserVars>>

FlagNext ==
    \/ \E r \in RunIds :
        \/ Invoke(r, Root)
        \/ EnterBusy(r)
        \/ EnterRun(r)
        \/ InitProgress(r)
        \/ SpawnBatch(r)
        \/ AwaitTask(r)
        \/ ClearProgress(r)
        \/ ReleaseFlag(r)
    \/ \E t \in DOMAIN task :
        \/ TaskBegin(t)
        \/ \E outcome \in {None, Some(<<1, 0>>)} : TaskEmbed(t, outcome)
        \/ AddFileSelect(t)
        \/ AddFileFail(t)
        \/ AddFileOffset(t)
        \/ AddFileAppend(t)
        \/ AddFileInsert(t)
    \/ ScanEnter
    \/ \E listed \in BOOLEAN : ScanList(listed)
    \/ \E entries \in Orders(Encountered(fs, config)), outcome \in {None, Some(<<1, 0>>)} :
           ScanReconcile(entries, outcome)

SpecFlag == FlagInit /\ [][FlagNext]_vars

\* No call that set the flag is still running.
NoCallHoldsFlag ==
    /\ ActiveRuns = {}
    /\ call = None \/ Get(call).pc = "returned"

\* C34: every index_directory or perform_startup_scan call that set the busy
\* flag has reset it when it returns, with Ok or with an error, so that a
\* later index_directory call on the Indexer is accepted.
BusyFlagReleased == NoCallHoldsFlag => ~is_indexing[1]

\* The same when the scan, if it ran, could list the records of Storage.
BusyFlagReleasedAfterListing ==
    NoCallHoldsFlag /\ (call = None \/ Get(call).ok) => ~is_indexing[1]

(***************************************************************************)
(* The FileWatcher's handle_event and an index_directory run in one        *)
(* process.  The index_file of handle_event is the task <<0, 1>>, the      *)
(* index_file calls of the run's batch are the tasks <<1, k>>.             *)
(***************************************************************************)
WatcherTask == <<0, 1>>

OverlapFs ==
    [p \in {Root, PathA, PathB} |-> IF p = Root THEN Some(Directory) ELSE Some(Version1)]

OverlapInit ==
    /\ EmptyStorage
    /\ task = [t \in ({1} \X (1..BATCH_SIZE)) \cup {WatcherTask} |-> Idle]
    /\ calls = 0
    /\ fs = OverlapFs
    /\ run = [r \in RunIds |-> NoRun]
    /\ is_indexing = [ix \in RunIds |-> FALSE]
    /\ progress = None
    /\ hnsw = None
    /\ NoWatcher
    /\ NoScan
    /\ NoCall
    /\ NoSettings
    /\ NoParser
    /\ NoSearch

\* handle_event, Create | Modify branch (file_watcher.rs:55-70): index_file
\* is called for the file of the event and runs up to its first embedding
\* request, or up to its add_file if it asks for none.
HandleIndex(h) ==
    /\ h \in inflight
    /\ h.route.name = "index"
    /\ task[WatcherTask] = Idle
    /\ LET path == h.event.path
           file == Get(h.route.file)
           n    == EmbeddingCount(path, file)
           job  == Some([path |-> path, k |-> 1, n |-> n])
       IN  task' = [task EXCEPT ![WatcherTask] =
                       IF n = 0
                       THEN CallAddFile(job, SectionMetadata(path, file, 1), None)
                       ELSE [pc |-> "embed", job |-> job]]
    /\ UNCHANGED <<storageVars, calls, passed, fs, indexVars, watchVars, searchVars, scanVars,
                   callVars, settingsVars, parserVars>>

\* The index_file of handle_event has returned, and handle_event returns.
HandleReturn(h) ==
    /\ h \in inflight
    /\ task[WatcherTask].pc = "done"
    /\ Get(task[WatcherTask].job).path = h.event.path
    /\ task' = [task EXCEPT ![WatcherTask] = Idle]
    /\ inflight' = inflight \ {h}
    /\ handled' = Append(handled, [event |-> h.event, route |-> h.route.name,
                                   outcome |-> None])
    /\ UNCHANGED <<storageVars, calls, passed, fs, indexVars, queue, delivered, searchVars,
                   scanVars, callVars, settingsVars, parserVars>>

OverlapNext ==
    \/ \E p \in {PathA, PathB} : FsModify(p)
    \/ Receive
    \/ \E h \in inflight :
        \/ HandleIndex(h)
        \/ HandleReturn(h)
    \/ StartIndexing(1, Root)
    \/ EnterRun(1)
    \/ InitProgress(1)
    \/ SpawnBatch(1)
    \/ AwaitTask(1)
    \/ ClearProgress(1)
    \/ ReleaseFlag(1)
    \/ RebuildAfterIndexing(1)
    \/ \E t \in DOMAIN task :
        \/ TaskBegin(t)
        \/ \E outcome \in {None, Some(<<1, 0>>)} : TaskEmbed(t, outcome)
        \/ AddFileSelect(t)
        \/ AddFileOffset(t)
        \/ AddFileAppend(t)
        \/ AddFileInsert(t)

SpecOverlap == OverlapInit /\ [][OverlapNext]_vars

\* The tasks that are inside index_file, and those of them that are inside
\* add_file between its existence check and its write.
InIndexFile(t) == task[t].pc \in {"embed", "select", "offset", "append", "insert"}
InUpsert(t) == task[t].pc \in {"offset", "append", "insert"}

\* C35: no two updates of one path run at the same time: an index_file the
\* FileWatcher started for a path never overlaps with one an index_directory
\* batch started for it, and the existence check and the write of an upsert
\* are never interleaved with another upsert of the path.
NoOverlappingUpdates ==
    \A t, u \in DOMAIN task :
        (t # u /\ InIndexFile(t) /\ InIndexFile(u)) =>
            Get(task[t].job).path # Get(task[u].job).path

\* The same for the tasks of the batches alone.
NoOverlapWithinBatch ==
    \A t, u \in DOMAIN task \ {WatcherTask} :
        (t # u /\ InIndexFile(t) /\ InIndexFile(u)) =>
            Get(task[t].job).path # Get(task[u].job).path

\* Two upserts of one path are between their check and their write.
UpsertsInterleaved ==
    \E t, u \in DOMAIN task :
        /\ t # u
        /\ InUpsert(t)
        /\ InUpsert(u)
        /\ task[t].metadata.file_path = task[u].metadata.file_path

\* The records scan s found for the sections after the first of the file at
\* path (indexer.rs:327-355).
SectionRecords(s, path) ==
    {r \in s.before.files : \E k \in 2..MaxSections : r.file_path = SectionPath(path, k)}

\* The file at path stood on disk, not excluded, as its primary record
\* describes it when scan s ran.
OnDiskUnchanged(s, path) ==
    /\ path \in OnDisk(s)
    /\ ~ShouldExcludeFile(path)
    /\ GetFileMetadata(s.before.files, path) # None
    /\ ~Changed(Get(GetFileMetadata(s.before.files, path)), Get(s.tree[path]))

\* C36: perform_startup_scan deletes no section record of a file that is
\* still on disk unchanged and is not excluded: after the scan the file has
\* its primary record and all its section records.
UnchangedFileKeepsSections ==
    \A i \in DOMAIN scans : \A p \in ScanFiles :
        OnDiskUnchanged(scans[i], p) =>
            /\ Get(GetFileMetadata(scans[i].before.files, p)) \in scans[i].after.files
            /\ SectionRecords(scans[i], p) \subseteq scans[i].after.files

\* The primary record alone.
UnchangedFileKeepsPrimary ==
    \A i \in DOMAIN scans : \A p \in ScanFiles :
        OnDiskUnchanged(scans[i], p) =>
            Get(GetFileMetadata(scans[i].before.files, p)) \in scans[i].after.files

\* A scan met an unchanged file that had section records.
UnchangedSectionedFileScanned ==
    \E i \in DOMAIN scans :
        /\ scans[i].ran
        /\ OnDiskUnchanged(scans[i], PathBig)
        /\ SectionRecords(scans[i], PathBig) # {}

(***************************************************************************)
(* The admission of files by the entry points: the FileWatcher's events    *)
(* and perform_startup_scan on one directory, with a file that has no      *)
(* parser (/w/f.zip) and one that should_exclude_file matches (/w/e.tmp).  *)
(***************************************************************************)
PathZip == Root \o <<"/", "f", ".", "z", "i", "p">>
AdmitFiles == {PathA, PathLog, PathZip, PathTmp}

AdmitInit ==
    /\ EmptyStorage
    /\ fs = [p \in AdmitFiles \cup {Root} |-> IF p = Root THEN Some(Directory) ELSE None]
    /\ task = <<>>
    /\ calls = 0
    /\ run = <<>>
    /\ is_indexing = <<FALSE>>
    /\ progress = None
    /\ hnsw = None
    /\ NoWatcher
    /\ NoScan
    /\ NoCall
    /\ NoSettings
    /\ NoParser
    /\ config = [DefaultConfig EXCEPT !.indexed_directories = <<Root>>]
    /\ search = None
    /\ searches = 0

AdmitNext ==
    \/ \E p \in AdmitFiles :
        \/ FsCreate(p)
        \/ FsModify(p)
    \/ Receive
    \/ \E h \in inflight, outcome \in {None, Some(<<1, 0>>)} : Complete(h, outcome)
    \/ \E entries \in Orders(Encountered(fs, config)), outcome \in {None, Some(<<1, 0>>)} :
           StartupScan(entries, outcome)

SpecAdmit == AdmitInit /\ [][AdmitNext]_vars

\* C37: every entry point applies the admission rule of index_directory: each
\* record in Storage belongs to a file that is not matched by
\* should_exclude_file and is of the metadata-only class or parsable.
EveryRecordAdmissible ==
    \A r \in files : Admissible(r.file_path)

\* The part of the rule every entry point applies: no record belongs to a
\* file that should_exclude_file matches.
NoRecordExcluded ==
    \A r \in files : ~ShouldExcludeFile(r.file_path)

\* The records perform_startup_scan creates are admissible.
ScanAdmitsAdmissible ==
    \A i \in DOMAIN scans :
        \A r \in scans[i].after.files :
            GetFileMetadata(scans[i].before.files, r.file_path) = None =>
                Admissible(r.file_path)

\* The FileWatcher has indexed a file that has no parser.
WatcherIndexedUnparsable ==
    /\ GetFileMetadata(files, PathZip) # None
    /\ scans = <<>>

(***************************************************************************)
(* Searches while files change between rebuilds of the ANN index: a file   *)
(* that had text is emptied and indexed again (by the FileWatcher), and    *)
(* the ANN index keeps what the last rebuild put there.                    *)
(***************************************************************************)
StaleFs ==
    [p \in {PathA, PathB} |-> Some(RegularFile(1, 1, Some(Small)))]

StaleRequests ==
    {[query |-> QueryA, limit |-> l, filters |-> None] : l \in {None, Some(2)}}

\* A program empties the file.
Truncate(p) ==
    /\ Running
    /\ Get(fs[p]).text = Some(Small)
    /\ fs' = [fs EXCEPT ![p] = Some(RegularFile(2, 0, Some(Blank)))]
    /\ UNCHANGED <<storageVars, task, calls, passed, indexVars, watchVars, searchVars,
                   scanVars, callVars, settingsVars, parserVars>>

StaleInit ==
    /\ EmptyStorage
    /\ task = <<>>
    /\ calls = 0
    /\ fs = StaleFs
    /\ NoIndexRuns
    /\ NoWatcher
    /\ NoScan
    /\ NoCall
    /\ NoSettings
    /\ NoParser
    /\ NoSearch

StaleNext ==
    \/ \E p \in DOMAIN fs, outcome \in {None, Some(<<1, 0>>), Some(<<3, 4>>)} :
           IndexOneFile(p, outcome)
    \/ \E p \in DOMAIN fs : Truncate(p)
    \/ \E p \in DOMAIN fs : DeleteOneFile(p)
    \/ RebuildIndex
    \/ \E request \in StaleRequests, embedded \in {None, Some(<<1, 0>>)} :
           Search(request, embedded, <<>>)

SpecStale == StaleInit /\ [][StaleNext]_vars

Answered == search # None /\ Get(search).response # None

\* C38: a search result list holds each file_path at most once, whatever
\* Storage and the ANN index hold, a record of the ANN index that has become
\* metadata-only in Storage included.
ResultPathsDistinct ==
    Answered =>
        \A i, j \in DOMAIN LastResults :
            LastResults[i].file_path = LastResults[j].file_path => i = j

\* No record of the ANN index is without a vector in Storage.
NoStaleVectorless ==
    \A e \in AnnEntries :
        \A r \in files : r.file_path = e.metadata.file_path => r.embedding_length > 0

\* The same when the ANN index holds no record that Storage has without a
\* vector.
ResultPathsDistinctWhenInStep ==
    (Answered /\ NoStaleVectorless) =>
        \A i, j \in DOMAIN LastResults :
            LastResults[i].file_path = LastResults[j].file_path => i = j

\* A search answered from an ANN index that holds a record Storage has
\* without a vector.
StaleSearchAnswered ==
    /\ Answered
    /\ ~NoStaleVectorless
    /\ LastResults # <<>>

\* The slots of the ANN index h that hold a record of the path.
SlotsOf(h, file_path) ==
    {s \in 1..Len(h.metadata_list) : h.metadata_list[s].file_path = file_path}

\* No two entries of the ANN index have the same file_path.
AnnPathsDistinct ==
    \A i \in 1..3 : Cardinality(SlotsOf(Get(hnsw), AnnPath(i))) <= 1

\* A step that is remove(p) leaves no entry of path p.
RemovedPathGone ==
    \A i \in 1..3 : OpsRemove(i) => SlotsOf(Get(hnsw'), AnnPath(i)) = {}

\* C39: the ANN index never holds two entries with the same file_path, and
\* after remove(p) no entry of path p remains, after any sequence of add,
\* remove, clear and rebuild.
AnnPathsUnique == [](AnnPathsDistinct) /\ [][RemovedPathGone]_vars

\* remove(p) on an index that holds p at most once leaves no entry of p, and
\* on any index removes at most one entry.
RemoveTakesOne ==
    \A i \in 1..3 :
        OpsRemove(i) =>
            /\ Len(Get(hnsw').metadata_list) >= Len(Get(hnsw).metadata_list) - 1
            /\ Cardinality(SlotsOf(Get(hnsw), AnnPath(i))) <= 1 =>
                   SlotsOf(Get(hnsw'), AnnPath(i)) = {}

RemoveTakesFirstOnly == [][RemoveTakesOne]_vars

\* The index holds one path twice.
PathHeldTwice ==
    \E i \in 1..3 : Cardinality(SlotsOf(Get(hnsw), AnnPath(i))) = 2

====
